---- MODULE Spec2Model ----
(***************************************************************************)
(* Model of the nc-read scripts: the Seattle bounding-box validity check   *)
(* (nc_check_not_empty_data_dir_files.py), the GeoJSON exports             *)
(* (nc_read_convert_geojson.py, nc_read_convert.py) and the geographic     *)
(* filter export of the reader scripts (nc_read.py and the two above),     *)
(* the interactive session of a reader script (main and save_data), the    *)
(* batches over several files (the directory scan and the content check    *)
(* after a download in nasa_api_curl.py), the naming of the GeoJSON file   *)
(* in nc_read_convert.py, the finder script nasa_api_curl.py (the filter   *)
(* of the collections, the parsing of a granule selection, the login, the  *)
(* download loop and the main flow that ties them) and the inspection of   *)
(* a file in nc_var_inspector.py.                                          *)
(*                                                                         *)
(* Strings that the code cuts up or compares letter by letter are held as  *)
(* sequences of one-character strings.                                     *)
(*                                                                         *)
(* Numbers: coordinates are held in tenths of a degree (47.4 -> 474), the  *)
(* measurements in hundredths (0.15 -> 15).  float() of a coordinate is    *)
(* exact, so it is the identity on these numbers.                          *)
(*                                                                         *)
(* A Grid Dataset is a regular level-3 grid: one latitude axis, one        *)
(* longitude axis, and data variables stored over these two dimensions in  *)
(* either order.  Every latitude (longitude) alias among the coordinate    *)
(* names of a dataset names its latitude (longitude) axis.                 *)
(***************************************************************************)
EXTENDS Integers, Sequences, FiniteSets, TLC

VARIABLES ds, check, export, run, scan, fname, sel, login, colls, inspect, flow, dl

vars == <<ds, check, export, run, scan, fname, sel, login, colls, inspect, flow, dl>>

(* the state of the finder script nasa_api_curl.py (the granule selection, the
   login, the collection filter, the main flow, the download loop) and of the
   inspector script nc_var_inspector.py *)
finderVars == << sel, login, colls, inspect, flow, dl >>

(* the value of a variable in the runs that do not use it *)
Unused == [pc |-> "unused"]

FinderUnused ==
  /\ sel = Unused /\ login = Unused /\ colls = Unused
  /\ inspect = Unused /\ flow = Unused /\ dl = Unused

(* the state of the interactive session of a reader script, of a batch over
   several files and of the naming of an output file: not touched by the single
   operations on a file *)
others == << run, scan, fname, finderVars >>

----------------------------------------------------------------------------
(* Bounds of the model *)

MaxAxisLen == 2
MaxValid == 2
MaxVars == 3
MaxAliases == 3
MaxExports == 2
MaxFiles == 2
MaxInput == 4
MaxIndex == 3
MaxGranules == 3
MaxCollections == 2
MaxSearches == 2
MaxSelections == 2

----------------------------------------------------------------------------
(* Configuration constants of the scripts *)

WEST == -1224
SOUTH == 474
EAST == -1222
NORTH == 477

SEATTLE_BBOX == [west |-> WEST, south |-> SOUTH, east |-> EAST, north |-> NORTH]

check_AOD_VARIABLE_CANDIDATES ==
  << "Aerosol_Optical_Depth_550",
     "COMBINE_AOD_550_AVG", "DT_AOD_550_AVG", "DB_AOD_550_AVG",
     "DT_DB_AOD_550_AVG", "DB_DT_AOD_550_AVG",
     "Optical_Depth_Land_And_Ocean", "AOD_550nm_Combined_Mean",
     "Aerosol_Optical_Depth_550nm_Mean", "AOD_550nm",
     "Deep_Blue_Aerosol_Optical_Depth_550_Land_Mean",
     "Dark_Target_Aerosol_Optical_Depth_550_Ocean_Mean" >>

geojson_AOD_VARIABLE_CANDIDATES ==
  << "Aerosol_Optical_Depth_550",
     "COMBINE_AOD_550_AVG", "DT_AOD_550_AVG", "DB_AOD_550_AVG",
     "DT_DB_AOD_550_AVG", "DB_DT_AOD_550_AVG",
     "Optical_Depth_Land_And_Ocean", "AOD_550nm_Combined_Mean",
     "Aerosol_Optical_Depth_550nm_Mean", "AOD_550nm" >>

AEROSOL_VAR_NAME == "Aerosol_Optical_Depth_550"

(* the alias lists of the validity checker and of find_coordinates *)
check_lat_names == << "lat", "latitude", "Latitude", "LAT" >>
check_lon_names == << "lon", "longitude", "Longitude", "LON" >>
geojson_lat_names == << "lat", "latitude", "Latitude", "LAT" >>
geojson_lon_names == << "lon", "longitude", "Longitude", "LON" >>

(* the alias lists of export option 5 of nc_read.py and nc_read_convert.py *)
read_lat_names == << "latitude", "lat", "Latitude", "LAT" >>
read_lon_names == << "longitude", "lon", "Longitude", "LON" >>
convert_lat_names == << "latitude", "lat", "Latitude", "LAT" >>
convert_lon_names == << "longitude", "lon", "Longitude", "LON" >>

----------------------------------------------------------------------------
(* Values *)

None == "None"

NaN == [nan |-> TRUE, v |-> 0]

Num(x) == [nan |-> FALSE, v |-> x]

Range(s) == { s[k] : k \in DOMAIN s }

RECURSIVE SortedSeq(_)
(* the elements of a finite set of integers, ascending *)
SortedSeq(S) ==
  IF S = {} THEN << >>
  ELSE LET m == CHOOSE x \in S : \A y \in S : x <= y
       IN  << m >> \o SortedSeq(S \ {m})

RECURSIVE SubSeqBy(_, _, _)
(* the members of pool whose index is in S, in pool order, from index k on *)
SubSeqBy(pool, S, k) ==
  IF k > Len(pool) THEN << >>
  ELSE IF k \in S THEN << pool[k] >> \o SubSeqBy(pool, S, k + 1)
  ELSE SubSeqBy(pool, S, k + 1)

----------------------------------------------------------------------------
(* Grid Datasets the scripts are run on *)

LatAliases == Range(check_lat_names)
LonAliases == Range(check_lon_names)

(* a regular 0.1 degree axis of n points from start *)
Axis(start, n) == [k \in 1..n |-> start + (k - 1)]

(* a one-point axis from the first start lies outside the box *)
LatStarts == {SOUTH - 1, SOUTH + 1, NORTH}
LonStarts == {WEST - 1, WEST + 1}

LatAxes == { Axis(s, n) : s \in LatStarts, n \in 1..MaxAxisLen }
LonAxes == { Axis(s, n) : s \in LonStarts, n \in 1..MaxAxisLen }

Cells(la, lo) == (1..Len(la)) \X (1..Len(lo))

(* the measurement stored at a cell that holds one: distinct per cell, 0.15 at the first *)
Measure(c) == 15 + 10 * (c[1] - 1) + (c[2] - 1)

GridValues(la, lo, S) == [c \in Cells(la, lo) |-> IF c \in S THEN Num(Measure(c)) ELSE NaN]

DimOrders == {"latlon", "lonlat"}

Dataset(dv, co, dm, la, lo, S) ==
  [data_vars |-> dv, coords |-> co, dims |-> dm, lat |-> la, lon |-> lo,
   values |-> GridValues(la, lo, S)]

(* the data set of the unit tests: a 2x2 grid inside the box, one valid point *)
TestVars == << "temp_placeholder", "Aerosol_Optical_Depth_550" >>
TestCoords == {"lat", "lon"}
TestLat == Axis(SOUTH + 1, 2)
TestLon == Axis(WEST + 1, 2)
ScenarioA == Dataset(TestVars, TestCoords, "latlon", TestLat, TestLon, {<<1, 1>>})

(* grids of every shape and position, under the names of the test data set *)
GridDatasets ==
  UNION { UNION { { Dataset(TestVars, TestCoords, dm, la, lo, S) :
                      dm \in DimOrders,
                      S \in { T \in SUBSET Cells(la, lo) : Cardinality(T) <= MaxValid } } :
                  lo \in LonAxes } :
          la \in LatAxes }

(* names a data set may expose: candidates, a non-candidate, names that differ
   from a candidate by case or by a suffix only, and a candidate that only the
   list of the checker holds *)
VarPool ==
  << "temp_placeholder", "DB_AOD_550_AVG", "DT_AOD_550_AVG", "COMBINE_AOD_550_AVG",
     "Aerosol_Optical_Depth_550", "aerosol_optical_depth_550", "AOD_550nm_Mean",
     "Deep_Blue_Aerosol_Optical_Depth_550_Land_Mean" >>

VarLists ==
  { SubSeqBy(VarPool, S, 1) : S \in { T \in SUBSET DOMAIN VarPool : Cardinality(T) <= MaxVars } }

CoordSets ==
  { A \cup B : A \in { T \in SUBSET LatAliases : Cardinality(T) <= MaxAliases },
               B \in { T \in SUBSET LonAliases : Cardinality(T) <= MaxAliases } }

(* the test grid under every choice of variable names, and of coordinate names *)
NameDatasets ==
  { Dataset(dv, TestCoords, "latlon", TestLat, TestLon, {<<1, 1>>}) : dv \in VarLists }
  \cup { Dataset(TestVars, co, "latlon", TestLat, TestLon, {<<1, 1>>}) : co \in CoordSets }

(* an axis stored from its last label to its first *)
Reversed(axis) == [k \in DOMAIN axis |-> axis[Len(axis) + 1 - k]]

(* the test grid, and a grid that crosses the south edge of the box, with the
   latitude or the longitude stored in descending order *)
DescendingDatasets ==
  { Dataset(TestVars, TestCoords, "latlon", la, lo, {<<1, 1>>}) :
      la \in { TestLat, Reversed(TestLat), Reversed(Axis(SOUTH - 1, 2)) },
      lo \in { TestLon, Reversed(TestLon) } }

Datasets == GridDatasets \cup NameDatasets \cup DescendingDatasets

----------------------------------------------------------------------------
(* Variable Resolver and Coordinate Resolver *)

RECURSIVE FirstPresent(_, _, _)
(* for name in names: if name in present: result = name; break *)
FirstPresent(names, present, k) ==
  IF k > Len(names) THEN None
  ELSE IF names[k] \in present THEN names[k]
  ELSE FirstPresent(names, present, k + 1)

(* a resolver that folds case before it compares *)
Lower(name) == IF name = "Aerosol_Optical_Depth_550" THEN "aerosol_optical_depth_550" ELSE name

check_find_variable_ignore_case(d) ==
  FirstPresent([k \in DOMAIN check_AOD_VARIABLE_CANDIDATES |-> Lower(check_AOD_VARIABLE_CANDIDATES[k])],
               { Lower(v) : v \in Range(d.data_vars) }, 1)

(* a resolver that falls back on the first variable of the data set *)
check_find_variable_or_first(d) ==
  LET found == FirstPresent(check_AOD_VARIABLE_CANDIDATES, Range(d.data_vars), 1)
  IN  IF found = None /\ d.data_vars # << >> THEN d.data_vars[1] ELSE found

check_find_variable(d) == FirstPresent(check_AOD_VARIABLE_CANDIDATES, Range(d.data_vars), 1)

check_find_lat(d) == FirstPresent(check_lat_names, d.coords, 1)

check_find_lon(d) == FirstPresent(check_lon_names, d.coords, 1)

(* a resolver that walks the data set's variables instead of the candidates *)
find_aod_variable_dataset_order(d) ==
  FirstPresent(d.data_vars, Range(geojson_AOD_VARIABLE_CANDIDATES), 1)

find_aod_variable(d) == FirstPresent(geojson_AOD_VARIABLE_CANDIDATES, Range(d.data_vars), 1)

(* a resolver that takes the longitude alias at the position of the latitude alias found *)
find_coordinates_same_position(d) ==
  LET lat_coord == FirstPresent(geojson_lat_names, d.coords, 1)
      k == CHOOSE m \in DOMAIN geojson_lat_names : lat_coord = None \/ geojson_lat_names[m] = lat_coord
  IN  [lat_coord |-> lat_coord,
       lon_coord |-> IF lat_coord # None /\ geojson_lon_names[k] \in d.coords
                     THEN geojson_lon_names[k] ELSE None]

find_coordinates(d) ==
  [lat_coord |-> FirstPresent(geojson_lat_names, d.coords, 1),
   lon_coord |-> FirstPresent(geojson_lon_names, d.coords, 1)]

----------------------------------------------------------------------------
(* Bounding-box filter: ds.where(mask, drop=True) *)

(* ds[name]: the axis a coordinate name stands for *)
coord_values(d, name) == IF name \in LatAliases THEN d.lat ELSE d.lon

(* a mask that leaves out the north and east edges *)
bbox_mask_exclusive(d, lat_coord, lon_coord, i, j) ==
  /\ coord_values(d, lat_coord)[i] >= SEATTLE_BBOX.south
  /\ coord_values(d, lat_coord)[i] < SEATTLE_BBOX.north
  /\ coord_values(d, lon_coord)[j] >= SEATTLE_BBOX.west
  /\ coord_values(d, lon_coord)[j] < SEATTLE_BBOX.east

(* (ds[lat] >= south) & (ds[lat] <= north) & (ds[lon] >= west) & (ds[lon] <= east) *)
bbox_mask(d, lat_coord, lon_coord, i, j) ==
  /\ coord_values(d, lat_coord)[i] >= SEATTLE_BBOX.south
  /\ coord_values(d, lat_coord)[i] <= SEATTLE_BBOX.north
  /\ coord_values(d, lon_coord)[j] >= SEATTLE_BBOX.west
  /\ coord_values(d, lon_coord)[j] <= SEATTLE_BBOX.east

(* drop=True keeps, along each dimension, the labels at which the mask is true somewhere *)
kept_lat(d, lat_coord, lon_coord) ==
  SortedSeq({ i \in DOMAIN d.lat : \E j \in DOMAIN d.lon : bbox_mask(d, lat_coord, lon_coord, i, j) })

kept_lon(d, lat_coord, lon_coord) ==
  SortedSeq({ j \in DOMAIN d.lon : \E i \in DOMAIN d.lat : bbox_mask(d, lat_coord, lon_coord, i, j) })

(* a view that keeps every cell of the data set *)
where_keeps_all(d, lat_coord, lon_coord) ==
  [data_vars |-> d.data_vars, dims |-> d.dims, lat |-> d.lat, lon |-> d.lon, values |-> d.values]

(* the filtered view: clipped to the kept labels, NaN where the mask is false *)
where_drop(d, lat_coord, lon_coord) ==
  LET li == kept_lat(d, lat_coord, lon_coord)
      lj == kept_lon(d, lat_coord, lon_coord)
  IN  [data_vars |-> d.data_vars,
       dims |-> d.dims,
       lat |-> [k \in DOMAIN li |-> d.lat[li[k]]],
       lon |-> [k \in DOMAIN lj |-> d.lon[lj[k]]],
       values |-> [c \in (DOMAIN li) \X (DOMAIN lj) |->
                     IF bbox_mask(d, lat_coord, lon_coord, li[c[1]], lj[c[2]])
                     THEN d.values[<< li[c[1]], lj[c[2]] >>]
                     ELSE NaN]]

(* DataArray.size *)
size(f) == Len(f.lat) * Len(f.lon)

(* a count that takes NaN cells along *)
count_all(f) == Cardinality(DOMAIN f.values)

(* DataArray.count(): the number of non-NaN elements *)
count(f) == Cardinality({ c \in DOMAIN f.values : ~ f.values[c].nan })

ZERO_SIZE == "zero-size array to reduction operation"

(* the filter as the array library runs it: on an empty selection it either
   returns the zero-size view or raises ValueError(ZERO_SIZE) *)
filter_bbox(d, lat_coord, lon_coord, zero_size_raises) ==
  LET view == where_drop(d, lat_coord, lon_coord)
  IN  IF size(view) = 0 /\ zero_size_raises
      THEN [exc |-> "ValueError", text |-> ZERO_SIZE, view |-> view]
      ELSE [exc |-> None, text |-> "", view |-> view]

----------------------------------------------------------------------------
(* nc_check_not_empty_data_dir_files.check_file_for_data *)

(* what a run leaves on the console besides its message: the stages it executed,
   in order, and the names its diagnostic lists as looked for and as available *)
Log(steps, looked_for, available) ==
  [steps |-> steps, looked_for |-> looked_for, available |-> available]

NoLog == Log(<< >>, {}, {})

CheckResult(exc, ret, msg, n, v, la, lo, log) ==
  [ran |-> TRUE, exc |-> exc, ret |-> ret, msg |-> msg, count |-> n,
   aod_variable |-> v, lat_coord |-> la, lon_coord |-> lo, log |-> log]

NoCheck ==
  [ran |-> FALSE, exc |-> None, ret |-> FALSE, msg |-> "", count |-> 0,
   aod_variable |-> None, lat_coord |-> None, lon_coord |-> None, log |-> NoLog]

(* the body of the try statement; exc is the exception it ends with, if any *)
check_try(d, zero_size_raises) ==
  LET aod_variable == check_find_variable(d)
      lat_coord == check_find_lat(d)
      lon_coord == check_find_lon(d)
      resolved == << "open_dataset", "find_variable", "find_coordinates" >>
  IN  IF aod_variable = None
      THEN CheckResult(None, FALSE, "FAIL: Missing required AOD variable", 0, None, None, None,
                       Log(<< "open_dataset", "find_variable" >>,
                           Range(check_AOD_VARIABLE_CANDIDATES), {}))
      ELSE IF lat_coord = None \/ lon_coord = None
      THEN CheckResult(None, FALSE, "FAIL: Could not find latitude/longitude coordinates", 0,
                       aod_variable, lat_coord, lon_coord, Log(resolved, {}, d.coords))
      ELSE LET filtered == filter_bbox(d, lat_coord, lon_coord, zero_size_raises)
               ds_filtered == filtered.view
               where == Log(resolved \o << "where" >>, {}, {})
           IN  IF filtered.exc # None
               THEN CheckResult(filtered.exc, FALSE, filtered.text, 0,
                                aod_variable, lat_coord, lon_coord, where)
               ELSE IF aod_variable \notin Range(ds_filtered.data_vars) \/ size(ds_filtered) = 0
               THEN CheckResult(None, FALSE, "FAIL: AOD variable was dropped after BBox filter", 0,
                                aod_variable, lat_coord, lon_coord, where)
               ELSE LET valid_count == count(ds_filtered)
                        counted == Log(resolved \o << "where", "count" >>, {}, {})
                    IN  IF valid_count > 0
                        THEN CheckResult(None, TRUE, "SUCCESS", valid_count,
                                         aod_variable, lat_coord, lon_coord, counted)
                        ELSE CheckResult(None, FALSE, "FAIL: BBox filtered but all data points were NaN",
                                         valid_count, aod_variable, lat_coord, lon_coord, counted)

(* no except clause: the exception leaves the function *)
check_except_none(t) == t

(* the except clauses: every exception becomes the return value False *)
check_except(t) ==
  IF t.exc = None THEN t
  ELSE IF t.exc = "FileNotFoundError"
  THEN CheckResult(None, FALSE, "Error: File not found", 0, t.aod_variable, t.lat_coord, t.lon_coord,
                   t.log)
  ELSE IF t.exc = "ValueError" /\ t.msg = ZERO_SIZE
  THEN CheckResult(None, FALSE, "Warning: BBox filter resulted in zero valid data points", 0,
                   t.aod_variable, t.lat_coord, t.lon_coord, t.log)
  ELSE CheckResult(None, FALSE, "Warning: Error reading", 0, t.aod_variable, t.lat_coord, t.lon_coord,
                   t.log)

check_file_for_data(d, zero_size_raises) == check_except(check_try(d, zero_size_raises))

----------------------------------------------------------------------------
(* Point-Feature extraction: DataArray.to_dataframe().dropna() and the GeoJSON features *)

(* index names that put the latitude first whatever the storage order *)
index_names_lat_first(f, lat_dim, lon_dim) == << lat_dim, lon_dim >>

(* df.index.names: the dimensions of the variable, in storage order *)
index_names(f, lat_dim, lon_dim) ==
  IF f.dims = "latlon" THEN << lat_dim, lon_dim >> ELSE << lon_dim, lat_dim >>

(* one row per index combination, the first dimension varying slowest *)
to_dataframe(f) ==
  LET latlon == f.dims = "latlon"
      n2 == IF latlon THEN Len(f.lon) ELSE Len(f.lat)
  IN  [k \in 1..size(f) |->
         LET a == ((k - 1) \div n2) + 1
             b == ((k - 1) % n2) + 1
             i == IF latlon THEN a ELSE b
             j == IF latlon THEN b ELSE a
         IN  [idx |-> IF latlon THEN << f.lat[i], f.lon[j] >> ELSE << f.lon[j], f.lat[i] >>,
              value |-> f.values[<< i, j >>]]]

not_nan(row) == ~ row.value.nan

(* no row is dropped *)
dropna_keeps_nan(df) == df

dropna(df) == SelectSeq(df, not_nan)

(* list.index(x): the first position of x *)
IndexOf(s, x) == CHOOSE k \in DOMAIN s : s[k] = x /\ \A m \in DOMAIN s : s[m] = x => k <= m

Feature(lat, lon, aerosol_value) ==
  [type |-> "Feature",
   geometry |-> [type |-> "Point", coordinates |-> << lon, lat >>],
   properties |-> [aod |-> aerosol_value, lat |-> lat, lon |-> lon]]

(* features that take lat and lon by position in the index, not by name *)
geojson_features_by_position(df, names, lat_coord, lon_coord) ==
  [k \in DOMAIN df |-> Feature(df[k].idx[1], df[k].idx[2], df[k].value.v)]

(* nc_read_convert_geojson: lat and lon are looked up in the index by name;
   a row whose index lacks one of the names is skipped *)
geojson_features(df, names, lat_coord, lon_coord) ==
  LET named(row) == lat_coord \in Range(names) /\ lon_coord \in Range(names)
      rows == SelectSeq(df, named)
  IN  [k \in DOMAIN rows |->
         Feature(rows[k].idx[IndexOf(names, lat_coord)],
                 rows[k].idx[IndexOf(names, lon_coord)],
                 rows[k].value.v)]

(* nc_read_convert: for (lat, lon), row in df.iterrows() *)
convert_features(df) ==
  [k \in DOMAIN df |-> Feature(df[k].idx[1], df[k].idx[2], df[k].value.v)]

----------------------------------------------------------------------------
(* export_to_geojson of the two reader scripts *)

NoMetadata == [none |-> TRUE]

(* exc: the exception the operation ends with, None when it returns;
   written: an output file was written; rows: the rows of a CSV export *)
ExportResult(op, exc, written, msg, v, la, lo, metadata, features, rows, log) ==
  [op |-> op, exc |-> exc, written |-> written, msg |-> msg, aod_variable |-> v,
   lat_coord |-> la, lon_coord |-> lo, metadata |-> metadata, features |-> features,
   rows |-> rows, log |-> log]

NoExport == ExportResult("none", None, FALSE, "", None, None, None, NoMetadata, << >>, << >>, NoLog)

(* attribute values are passed through unchanged; only the keys are modelled *)
geojson_metadata(aod_variable) ==
  [source_product |-> "product_name", time_start |-> "time_coverage_start",
   time_end |-> "time_coverage_end", variable_description |-> "long_name",
   variable_name |-> aod_variable]

convert_metadata ==
  [source_product |-> "product_name", time_start |-> "time_coverage_start",
   time_end |-> "time_coverage_end", variable_description |-> "long_name"]

(* nc_read_convert_geojson.export_to_geojson *)
geojson_export_to_geojson(d, zero_size_raises) ==
  LET op == "geojson.export_to_geojson"
      aod_variable == find_aod_variable(d)
      lat_coord == find_coordinates(d).lat_coord
      lon_coord == find_coordinates(d).lon_coord
      resolved == << "find_aod_variable", "find_coordinates" >>
  IN  IF aod_variable = None
      THEN ExportResult(op, None, FALSE, "Error: No AOD variable found in file", None, None, None,
                        NoMetadata, << >>, << >>,
                        Log(<< "find_aod_variable" >>, Range(geojson_AOD_VARIABLE_CANDIDATES),
                            Range(d.data_vars)))
      ELSE IF lat_coord = None \/ lon_coord = None
      THEN ExportResult(op, None, FALSE, "Error: Could not find latitude/longitude coordinates",
                        aod_variable, lat_coord, lon_coord, NoMetadata, << >>, << >>,
                        Log(resolved, {}, d.coords))
      ELSE LET metadata == geojson_metadata(aod_variable)
               filtered == filter_bbox(d, lat_coord, lon_coord, zero_size_raises)
               ds_filtered == filtered.view
               where == Log(resolved \o << "where" >>, {}, {})
               framed == Log(resolved \o << "where", "to_dataframe" >>, {}, {})
           IN  IF filtered.exc # None
               THEN ExportResult(op, None, FALSE, "Error during spatial filtering",
                                 aod_variable, lat_coord, lon_coord, metadata, << >>, << >>, where)
               ELSE IF aod_variable \notin Range(ds_filtered.data_vars) \/ size(ds_filtered) = 0
               THEN ExportResult(op, None, FALSE, "Warning: Filtered dataset has no data points",
                                 aod_variable, lat_coord, lon_coord, metadata, << >>, << >>, where)
               ELSE LET df == dropna(to_dataframe(ds_filtered))
                    IN  IF df = << >>
                        THEN ExportResult(op, None, FALSE,
                                          "Warning: Filtered dataset contains only NaN values",
                                          aod_variable, lat_coord, lon_coord, metadata, << >>, << >>,
                                          framed)
                        ELSE ExportResult(op, None, TRUE, "Success", aod_variable, lat_coord, lon_coord,
                                          metadata,
                                          geojson_features(df, index_names(ds_filtered, lat_coord, lon_coord),
                                                           lat_coord, lon_coord),
                                          << >>,
                                          Log(framed.steps \o << "write" >>, {}, {}))

(* nc_read_convert.export_to_geojson: the fixed variable name, ds.lat and ds.lon;
   a missing lat or lon attribute raises inside the try around the filter *)
convert_export_to_geojson(d, zero_size_raises) ==
  LET op == "convert.export_to_geojson"
      where == Log(<< "where" >>, {}, {})
      framed == Log(<< "where", "to_dataframe" >>, {}, {})
  IN  IF AEROSOL_VAR_NAME \notin Range(d.data_vars)
      THEN ExportResult(op, None, FALSE, "Error: Variable not found in the file", None, None, None,
                        NoMetadata, << >>, << >>, Log(<< >>, {AEROSOL_VAR_NAME}, Range(d.data_vars)))
      ELSE IF "lat" \notin d.coords \/ "lon" \notin d.coords
      THEN ExportResult(op, None, FALSE, "Error during spatial filtering", AEROSOL_VAR_NAME, None, None,
                        convert_metadata, << >>, << >>, Log(<< >>, {"lat", "lon"}, {}))
      ELSE LET filtered == filter_bbox(d, "lat", "lon", zero_size_raises)
               ds_filtered == filtered.view
           IN  IF filtered.exc # None
               THEN ExportResult(op, None, FALSE, "Error during spatial filtering",
                                 AEROSOL_VAR_NAME, "lat", "lon", convert_metadata, << >>, << >>, where)
               ELSE IF AEROSOL_VAR_NAME \notin Range(ds_filtered.data_vars) \/ size(ds_filtered) = 0
               THEN ExportResult(op, None, FALSE, "Warning: Filtered dataset has no data points",
                                 AEROSOL_VAR_NAME, "lat", "lon", convert_metadata, << >>, << >>, where)
               ELSE LET df == dropna(to_dataframe(ds_filtered))
                    IN  IF df = << >>
                        THEN ExportResult(op, None, FALSE,
                                          "Warning: Filtered dataset contains only NaN values",
                                          AEROSOL_VAR_NAME, "lat", "lon", convert_metadata, << >>, << >>,
                                          framed)
                        ELSE ExportResult(op, None, TRUE, "Success", AEROSOL_VAR_NAME, "lat", "lon",
                                          convert_metadata, convert_features(df), << >>,
                                          Log(framed.steps \o << "write" >>, {}, {}))

----------------------------------------------------------------------------
(* Export option 5 of save_data: filter by geographic area, then export to CSV *)

(* what the user types at the four prompts: numeric is FALSE when an entry is
   not a number, and float() raises ValueError *)
Option5Entries ==
  { [numeric |-> n, lat_min |-> SEATTLE_BBOX.south, lat_max |-> SEATTLE_BBOX.north,
     lon_min |-> SEATTLE_BBOX.west, lon_max |-> SEATTLE_BBOX.east] : n \in BOOLEAN }

(* ds.sel({name: slice(lo, hi)}) on a sorted axis: the labels from lo to hi, both
   included, in the direction the axis is stored *)
sel_slice(axis, lo, hi) ==
  IF \A k \in DOMAIN axis, m \in DOMAIN axis : k <= m => axis[k] <= axis[m]
  THEN SortedSeq({ k \in DOMAIN axis : lo <= axis[k] /\ axis[k] <= hi })
  ELSE SortedSeq({ k \in DOMAIN axis : hi <= axis[k] /\ axis[k] <= lo })

(* filtered.to_dataframe().reset_index(): one row per cell of the selection *)
sel_rows(d, li, lj) ==
  [k \in 1..(Len(li) * Len(lj)) |->
     LET i == li[((k - 1) \div Len(lj)) + 1]
         j == lj[((k - 1) % Len(lj)) + 1]
     IN  [lat |-> d.lat[i], lon |-> d.lon[j], value |-> d.values[<< i, j >>]]]

(* the part of option 5 the scripts share, after the names are resolved;
   catches: the script catches the ValueError of float() *)
option5(op, d, lat_coord, lon_coord, entry, catches) ==
  IF lat_coord = None \/ lon_coord = None
  THEN ExportResult(op, None, FALSE, "Error: Could not find latitude/longitude coordinates",
                    None, lat_coord, lon_coord, NoMetadata, << >>, << >>,
                    Log(<< "find_coordinates" >>, {}, d.coords))
  ELSE IF ~ entry.numeric
  THEN IF catches
       THEN ExportResult(op, None, FALSE, "Invalid number input. Aborting filter.",
                         None, lat_coord, lon_coord, NoMetadata, << >>, << >>,
                         Log(<< "find_coordinates" >>, {}, {}))
       ELSE ExportResult(op, "ValueError", FALSE, "", None, lat_coord, lon_coord,
                         NoMetadata, << >>, << >>, Log(<< "find_coordinates" >>, {}, {}))
  ELSE ExportResult(op, None, TRUE, "Saved filtered data", None, lat_coord, lon_coord, NoMetadata,
                    << >>,
                    sel_rows(d, sel_slice(coord_values(d, lat_coord), entry.lat_min, entry.lat_max),
                                sel_slice(coord_values(d, lon_coord), entry.lon_min, entry.lon_max)),
                    Log(<< "find_coordinates", "sel", "write" >>, {}, {}))

(* nc_read.save_data, choice 5 *)
read_save_data_5(d, entry) ==
  option5("read.save_data.5", d,
          FirstPresent(read_lat_names, d.coords, 1), FirstPresent(read_lon_names, d.coords, 1),
          entry, FALSE)

(* nc_read_convert.save_data, choice 5 *)
convert_save_data_5(d, entry) ==
  option5("convert.save_data.5", d,
          FirstPresent(convert_lat_names, d.coords, 1), FirstPresent(convert_lon_names, d.coords, 1),
          entry, TRUE)

(* nc_read_convert_geojson.save_data, choice 5 *)
geojson_save_data_5(d, entry) ==
  option5("geojson.save_data.5", d,
          find_coordinates(d).lat_coord, find_coordinates(d).lon_coord, entry, TRUE)

----------------------------------------------------------------------------
(* The interactive session of a reader script: main() and save_data() *)

Scripts == {"read", "convert", "geojson"}

(* what the user types at the export menu *)
Choices == {"1", "2", "3", "4", "5", "6", "7", "x"}

(* what the user may type for the variable number of option 3: a text that is
   no number, or a number *)
NotANumber == [numeric |-> FALSE, n |-> 0]
Number(n) == [numeric |-> TRUE, n |-> n]

VarEntries == { NotANumber } \cup { Number(n) : n \in (0 - MaxVars)..(MaxVars + 1) }

(* what the last turn of option 3 did: the entry, the variable chosen (None when
   none was), the exception that left save_data, whether the file was written *)
Option3(entry, var_name, exc, written) ==
  [entry |-> entry, var_name |-> var_name, exc |-> exc, written |-> written]

NoOption3 == [entry |-> NotANumber, var_name |-> None, exc |-> None, written |-> FALSE, none |-> TRUE]

(* handle: "none" before open_dataset returns, "open" after it, "closed" after
   ds.close(); option3: the last export of a single variable *)
Run(script, pc, handle, exports, last, msg, option3) ==
  [script |-> script, pc |-> pc, handle |-> handle, exports |-> exports, last |-> last,
   msg |-> msg, option3 |-> option3]

NoRun == Run("none", "idle", "none", 0, "", "", NoOption3)

(* df.to_csv, df.to_parquet, open(output_file, 'w'): raise when the file cannot be written *)
write_file(write_ok) ==
  IF write_ok THEN [exc |-> None, written |-> TRUE] ELSE [exc |-> "OSError", written |-> FALSE]

no_write == [exc |-> None, written |-> FALSE]

(* the write that follows an operation which got as far as its output file *)
then_write(r, write_ok) ==
  IF r.exc # None THEN [exc |-> r.exc, written |-> FALSE]
  ELSE IF r.written THEN write_file(write_ok)
  ELSE no_write

(* var_choice = int(input(...)) - 1; var_name = vars_list[var_choice]: a list
   index below zero counts from the end of the list *)
select_variable(vars_list, entry) ==
  LET var_choice == entry.n - 1
  IN  IF ~ entry.numeric THEN [exc |-> "ValueError", var_name |-> None]
      ELSE IF var_choice >= Len(vars_list) \/ var_choice < 0 - Len(vars_list)
      THEN [exc |-> "IndexError", var_name |-> None]
      ELSE IF var_choice >= 0 THEN [exc |-> None, var_name |-> vars_list[var_choice + 1]]
      ELSE [exc |-> None, var_name |-> vars_list[Len(vars_list) + var_choice + 1]]

(* option 3 of save_data; caught tells whether the selection is inside
   try ... except (ValueError, IndexError) *)
save_data_3(d, caught, var_entry, write_ok) ==
  LET chosen == select_variable(d.data_vars, var_entry)
  IN  IF chosen.exc # None
      THEN IF caught THEN Option3(var_entry, None, None, FALSE)
           ELSE Option3(var_entry, None, chosen.exc, FALSE)
      ELSE Option3(var_entry, chosen.var_name, write_file(write_ok).exc, write_file(write_ok).written)

Entry(entry_ok) == CHOOSE e \in Option5Entries : e.numeric = entry_ok

(* nc_read.save_data: nothing is caught *)
read_save_data(d, choice, entry_ok, var_entry, write_ok) ==
  IF choice \in {"1", "2", "4"} THEN write_file(write_ok)
  ELSE IF choice = "3"
  THEN save_data_3(d, FALSE, var_entry, write_ok)
  ELSE IF choice = "5" THEN then_write(read_save_data_5(d, Entry(entry_ok)), write_ok)
  ELSE no_write

(* nc_read_convert.save_data: a bad selection or number is caught, a failing write is not *)
convert_save_data(d, choice, entry_ok, var_entry, write_ok, zero_size_raises) ==
  IF choice = "7" THEN then_write(convert_export_to_geojson(d, zero_size_raises), write_ok)
  ELSE IF choice \in {"1", "2", "4"} THEN write_file(write_ok)
  ELSE IF choice = "3" THEN save_data_3(d, TRUE, var_entry, write_ok)
  ELSE IF choice = "5" THEN then_write(convert_save_data_5(d, Entry(entry_ok)), write_ok)
  ELSE no_write

(* nc_read_convert_geojson.save_data *)
geojson_save_data(d, choice, entry_ok, var_entry, write_ok, zero_size_raises) ==
  IF choice = "7" THEN then_write(geojson_export_to_geojson(d, zero_size_raises), write_ok)
  ELSE IF choice \in {"1", "2", "4"} THEN write_file(write_ok)
  ELSE IF choice = "3" THEN save_data_3(d, TRUE, var_entry, write_ok)
  ELSE IF choice = "5" THEN then_write(geojson_save_data_5(d, Entry(entry_ok)), write_ok)
  ELSE no_write

save_data(script, d, choice, entry_ok, var_entry, write_ok, zero_size_raises) ==
  IF script = "read" THEN read_save_data(d, choice, entry_ok, var_entry, write_ok)
  ELSE IF script = "convert"
  THEN convert_save_data(d, choice, entry_ok, var_entry, write_ok, zero_size_raises)
  ELSE geojson_save_data(d, choice, entry_ok, var_entry, write_ok, zero_size_raises)

(* pre_check_dataset: no data variable, or a first variable of size 0 *)
is_empty(d) == d.data_vars = << >> \/ DOMAIN d.values = {}

(* the except clauses of main: they print and fall off the end of main *)
main_except(script, exc) ==
  IF script = "read" THEN "Error opening file"
  ELSE IF exc = "FileNotFoundError" THEN "File not found."
  ELSE "Error processing file"

(* main up to the first question: get_file, open_dataset, the pre-check and the
   display.  exists: the path names a file; open_exc: what open_dataset raises *)
main_start(script, d, exists, open_exc) ==
  IF ~ exists THEN Run(script, "returned", "none", 0, "", "Error: File not found at", NoOption3)
  ELSE IF open_exc # None
  THEN Run(script, "returned", "none", 0, "", main_except(script, open_exc), NoOption3)
  ELSE IF script # "read" /\ is_empty(d)
  THEN Run(script, "returned", "closed", 0, "", "Processing complete", NoOption3)
  ELSE Run(script, "ask_export", "open", 0, "", "", NoOption3)

(* one turn of the while loop of main: the question, save_data, the second question *)
main_loop(r, d, save_choice, choice, saved, continue_choice) ==
  IF save_choice # "y"
  THEN Run(r.script, "returned", "closed", r.exports, r.last, "Processing complete", r.option3)
  ELSE IF saved.exc # None
  THEN Run(r.script, "returned", r.handle, r.exports, choice, main_except(r.script, saved.exc),
           IF choice = "3" THEN saved ELSE NoOption3)
  ELSE IF continue_choice # "y"
  THEN Run(r.script, "returned", "closed", r.exports + 1, choice, "Processing complete",
           IF choice = "3" THEN saved ELSE NoOption3)
  ELSE Run(r.script, "ask_export", r.handle, r.exports + 1, choice, "",
           IF choice = "3" THEN saved ELSE NoOption3)

----------------------------------------------------------------------------
(* Batches: the directory scan of nc_check_not_empty_data_dir_files.py and the
   content check that follows a download in nasa_api_curl.py *)

(* a file of a batch: the end of its name, what open_dataset raises on it (None
   when it opens) and the data set it holds *)
FileEntry(ext, open_exc, d) == [ext |-> ext, open_exc |-> open_exc, d |-> d]

(* a file with a valid point, one whose in-box values are all NaN, a one-cell grid
   outside the box, one without a candidate variable, one without data variables *)
BatchDatasets ==
  { ScenarioA,
    Dataset(TestVars, TestCoords, "latlon", TestLat, TestLon, {}),
    Dataset(TestVars, TestCoords, "latlon", Axis(SOUTH - 1, 1), Axis(WEST - 1, 1), {<<1, 1>>}),
    Dataset(<< "temp_placeholder" >>, TestCoords, "latlon", TestLat, TestLon, {<<1, 1>>}),
    Dataset(<< >>, TestCoords, "latlon", TestLat, TestLon, {}) }

(* a file that vanished, a corrupt file, a file of an unsupported format *)
FileErrors == {"FileNotFoundError", "OSError", "ValueError"}

FileEntries ==
  { FileEntry(".txt", "ValueError", ScenarioA) }
    \cup { FileEntry(ext, None, d) : ext \in {".nc", ".nc4"}, d \in BatchDatasets }
    \cup { FileEntry(".nc", exc, ScenarioA) : exc \in FileErrors }

FileLists == UNION { [1..n -> FileEntries] : n \in 0..MaxFiles }

(* file_name.endswith(('.nc', '.nc4')) *)
is_netcdf(e) == e.ext \in {".nc", ".nc4"}

(* check_file_for_data with an open_dataset that raises outside every try *)
check_path_uncaught(e, zero_size_raises) ==
  IF e.open_exc # None
  THEN CheckResult(e.open_exc, FALSE, "open_dataset failed", 0, None, None, None,
                   Log(<< "open_dataset" >>, {}, {}))
  ELSE check_file_for_data(e.d, zero_size_raises)

(* check_file_for_data(file_path): open_dataset is the first statement of the try *)
check_path(e, zero_size_raises) ==
  IF e.open_exc # None
  THEN check_except(CheckResult(e.open_exc, FALSE, "open_dataset failed", 0, None, None, None,
                                Log(<< "open_dataset" >>, {}, {})))
  ELSE check_file_for_data(e.d, zero_size_raises)

(* nasa_api_curl.check_file_contents: a file is valid when it opens and has a data
   variable of more than one element; handle tells what became of the data set *)
check_file_contents(e) ==
  IF e.open_exc # None
  THEN [ret |-> FALSE, handle |-> "none", msg |-> "ERROR: Could not read file content"]
  ELSE IF Len(e.d.data_vars) = 0
  THEN [ret |-> FALSE, handle |-> "closed", msg |-> "WARNING: File has zero data variables"]
  ELSE [ret |-> \E k \in DOMAIN e.d.data_vars : size(e.d) > 1, handle |-> "closed", msg |-> ""]

(* reported: the counts the final summary prints *)
Summary(reported, valid, invalid) == [reported |-> reported, valid |-> valid, invalid |-> invalid]

NoSummary == Summary({}, 0, 0)

(* i: the position of the next file; checked: the positions handed to the check,
   in order; valid_files, empty_files: the positions appended to the two lists *)
Scan(kind, pc, files, i, checked, valid_files, empty_files, summary) ==
  [kind |-> kind, pc |-> pc, files |-> files, i |-> i, checked |-> checked,
   valid_files |-> valid_files, empty_files |-> empty_files, summary |-> summary]

NoScan == Scan("none", "idle", << >>, 1, << >>, << >>, << >>, NoSummary)

(* find_valid_seattle_files up to the loop: the directory must exist *)
scan_start(s, isdir) ==
  IF ~ isdir
  THEN Scan(s.kind, "returned", s.files, 1, << >>, << >>, << >>, NoSummary)
  ELSE Scan(s.kind, "walking", s.files, 1, << >>, << >>, << >>, NoSummary)

(* a loop that gives up at the first file whose check is not true *)
scan_file_until_failure(s, r) ==
  IF ~ is_netcdf(s.files[s.i])
  THEN Scan(s.kind, s.pc, s.files, s.i + 1, s.checked, s.valid_files, s.empty_files, s.summary)
  ELSE IF r.exc # None \/ ~ r.ret
  THEN Scan(s.kind, "aborted", s.files, s.i, Append(s.checked, s.i), s.valid_files,
            s.empty_files, s.summary)
  ELSE Scan(s.kind, s.pc, s.files, s.i + 1, Append(s.checked, s.i), Append(s.valid_files, s.i),
            s.empty_files, s.summary)

(* one turn of the loop over os.walk; r is what check_file_for_data did on the
   file.  An exception that leaves the check leaves find_valid_seattle_files too *)
scan_file(s, r) ==
  IF ~ is_netcdf(s.files[s.i])
  THEN Scan(s.kind, s.pc, s.files, s.i + 1, s.checked, s.valid_files, s.empty_files, s.summary)
  ELSE IF r.exc # None
  THEN Scan(s.kind, "aborted", s.files, s.i, Append(s.checked, s.i), s.valid_files,
            s.empty_files, s.summary)
  ELSE Scan(s.kind, s.pc, s.files, s.i + 1, Append(s.checked, s.i),
            IF r.ret THEN Append(s.valid_files, s.i) ELSE s.valid_files,
            s.empty_files, s.summary)

(* the post-scan summary prints the number of valid files and their names *)
scan_summary(s) ==
  Scan(s.kind, "done", s.files, s.i, s.checked, s.valid_files, s.empty_files,
       Summary({"valid"}, Len(s.valid_files), 0))

(* download_granules up to the content check: the library is installed and the
   search found granules; files are the files downloaded *)
download_start(s, available, found) ==
  IF ~ available \/ ~ found
  THEN Scan(s.kind, "returned", s.files, 1, << >>, << >>, << >>, NoSummary)
  ELSE Scan(s.kind, "walking", s.files, 1, << >>, << >>, << >>, NoSummary)

(* one turn of the loop over the downloaded files *)
content_check_file(s, r) ==
  Scan(s.kind, s.pc, s.files, s.i + 1, Append(s.checked, s.i),
       IF r.ret THEN Append(s.valid_files, s.i) ELSE s.valid_files,
       IF r.ret THEN s.empty_files ELSE Append(s.empty_files, s.i),
       s.summary)

(* DOWNLOAD SUMMARY: valid files with data, empty/placeholder files *)
download_summary(s) ==
  Scan(s.kind, "done", s.files, s.i, s.checked, s.valid_files, s.empty_files,
       Summary({"valid", "invalid"}, Len(s.valid_files), Len(s.empty_files)))

----------------------------------------------------------------------------
(* nc_read_convert.generate_output_filename.  A string is the sequence of its
   characters. *)

(* str.find: the first position at which sub occurs in s, 0 when it does not *)
find(s, sub) ==
  LET at == { k \in 1..(Len(s) - Len(sub) + 1) : SubSeq(s, k, k + Len(sub) - 1) = sub }
  IN  IF at = {} THEN 0 ELSE CHOOSE k \in at : \A m \in at : k <= m

(* sub in s *)
contains(s, sub) == find(s, sub) # 0

RECURSIVE split(_, _)
(* s.split(sep): the parts of s between the occurrences of sep *)
split(s, sep) ==
  LET k == find(s, sep)
  IN  IF k = 0 THEN << s >>
      ELSE << SubSeq(s, 1, k - 1) >> \o split(SubSeq(s, k + Len(sep), Len(s)), sep)

RECURSIVE replace(_, _, _)
(* s.replace(old, new): every occurrence of old becomes new *)
replace(s, old, new) ==
  LET k == find(s, old)
  IN  IF k = 0 THEN s
      ELSE SubSeq(s, 1, k - 1) \o new \o replace(SubSeq(s, k + Len(old), Len(s)), old, new)

(* os.path.basename: what follows the last slash *)
basename(path) ==
  LET slashes == { k \in DOMAIN path : path[k] = "/" }
  IN  IF slashes = {} THEN path
      ELSE SubSeq(path, (CHOOSE k \in slashes : \A m \in slashes : m <= k) + 1, Len(path))

PACE_OCI_DOT == << "P", "A", "C", "E", "_", "O", "C", "I", "." >>
DOT_L3M == << ".", "L", "3", "m" >>
V3_1_DOT == << "V", "3", "_", "1", "." >>
DOT_NRT == << ".", "N", "R", "T" >>
undated == << "u", "n", "d", "a", "t", "e", "d" >>
unknown_res == << "u", "n", "k", "n", "o", "w", "n", "_", "r", "e", "s" >>
point == << "p", "o", "i", "n", "t" >>
seattle_aod_ == << "s", "e", "a", "t", "t", "l", "e", "_", "a", "o", "d", "_" >>
dot_geojson == << ".", "g", "e", "o", "j", "s", "o", "n" >>

(* split(sep)[1] raises IndexError when sep does not occur: the except clause
   sets "undated" *)
generate_output_filename(nc_filepath) ==
  LET base_name == basename(nc_filepath)
      date_str ==
        IF Len(split(base_name, PACE_OCI_DOT)) < 2 THEN undated
        ELSE split(split(base_name, PACE_OCI_DOT)[2], DOT_L3M)[1]
      resolution_str ==
        IF ~ contains(base_name, V3_1_DOT) THEN unknown_res
        ELSE LET res_part == split(base_name, V3_1_DOT)[2]
             IN  replace(IF contains(res_part, DOT_NRT) THEN split(res_part, DOT_NRT)[1]
                         ELSE unknown_res,
                         << "p" >>, point)
  IN  seattle_aod_ \o date_str \o << "_" >> \o resolution_str \o dot_geojson

(* the names of files the export is given: PACE level-3 names and names that
   lack one of the marks the function looks for, with and without a directory *)
Directories == { << >>, << "d", "a", "t", "a", "/" >> }
Prefixes == { PACE_OCI_DOT, << "A", "E", "R", "D", "B", "_", "D", "3", "_", "V", "I", "I", "R", "S", "_", "S", "N", "P", "P", "." >> }
Dates == { << "2", "0", "2", "5", "0", "7", "0", "2" >>, << "2", "0", "2", "5", "1", "2", "3", "1" >> }
Levels == { DOT_L3M, << ".", "L", "2" >> }
Products == { << ".", "D", "A", "Y", ".", "A", "E", "R", "_", "U", "A", "A", "." >> }
Versions == { V3_1_DOT, << "V", "2", "_", "0", "." >> }
Resolutions == { << "0", "p", "1", "d", "e", "g" >>, << "1", "d", "e", "g" >>, << "4", "k", "m" >>, << "0", "p", "2", "5", "d", "e", "g" >> }
Latencies == { DOT_NRT, << >> }
dot_nc == << ".", "n", "c" >>

FileName(dir, prefix, date, level, product, version, resolution, latency) ==
  dir \o prefix \o date \o level \o product \o version \o resolution \o latency \o dot_nc

FileNames ==
  { FileName(dir, prefix, date, level, product, version, resolution, latency) :
      dir \in Directories, prefix \in Prefixes, date \in Dates, level \in Levels,
      product \in Products, version \in Versions, resolution \in Resolutions,
      latency \in Latencies }

(* the name given and the name generated; named is FALSE until the function ran *)
Name(nc_filepath, named, output) == [nc_filepath |-> nc_filepath, named |-> named, output |-> output]

NoName == Name(<< >>, FALSE, << >>)

----------------------------------------------------------------------------
(* nasa_api_curl.parse_granule_selection.  The input is a string, held as the
   sequence of its characters. *)

Digits == << "0", "1", "2", "3", "4", "5", "6", "7", "8", "9" >>

is_digit(c) == c \in Range(Digits)

(* the value of a digit character *)
digit(c) == (CHOOSE k \in DOMAIN Digits : Digits[k] = c) - 1

RECURSIVE strip(_)
(* str.strip(): leading and trailing blanks removed *)
strip(s) ==
  IF s = << >> THEN s
  ELSE IF Head(s) = " " THEN strip(Tail(s))
  ELSE IF s[Len(s)] = " " THEN strip(SubSeq(s, 1, Len(s) - 1))
  ELSE s

RECURSIVE decimal(_)
(* the number a sequence of digits writes *)
decimal(s) == IF s = << >> THEN 0 ELSE 10 * decimal(SubSeq(s, 1, Len(s) - 1)) + digit(s[Len(s)])

(* int(s): blanks around the number are allowed; anything but digits raises
   ValueError (ok is FALSE).  A sign never reaches int here: a part with a minus
   is split at the minus first *)
int(s) ==
  LET t == strip(s)
  IN  IF t # << >> /\ \A k \in DOMAIN t : is_digit(t[k])
      THEN [ok |-> TRUE, v |-> decimal(t)]
      ELSE [ok |-> FALSE, v |-> 0]

(* range(start, end + 1) cut to 1..max_index *)
in_bounds(start, end, max_index) == { i \in start..end : 1 <= i /\ i <= max_index }

(* a parser that reads a range only when it is written upwards *)
part_indices_upward(part, max_index) ==
  IF contains(part, << "-" >>)
  THEN LET pieces == split(part, << "-" >>)
       IN  IF Len(pieces) # 2 \/ ~ int(pieces[1]).ok \/ ~ int(pieces[2]).ok THEN {}
           ELSE in_bounds(int(pieces[1]).v, int(pieces[2]).v, max_index)
  ELSE IF int(part).ok THEN in_bounds(int(part).v, int(part).v, max_index) ELSE {}

(* the indices one part adds to selected_indices: a range when the part holds a
   minus, else a single index.  start, end = map(int, ...) raises ValueError
   unless there are exactly two pieces and both are numbers; the except clause
   goes on with the next part *)
part_indices(part, max_index) ==
  IF contains(part, << "-" >>)
  THEN LET pieces == split(part, << "-" >>)
       IN  IF Len(pieces) # 2 \/ ~ int(pieces[1]).ok \/ ~ int(pieces[2]).ok THEN {}
           ELSE LET a == int(pieces[1]).v
                    b == int(pieces[2]).v
                IN  IF a > b THEN in_bounds(b, a, max_index) ELSE in_bounds(a, b, max_index)
  ELSE IF int(part).ok THEN in_bounds(int(part).v, int(part).v, max_index) ELSE {}

(* sorted(list(selected_indices)) over the stripped parts of input_str.split(',') *)
parse_granule_selection(input_str, max_index) ==
  LET parts == split(input_str, << "," >>)
  IN  SortedSeq(UNION { part_indices(strip(parts[k]), max_index) : k \in DOMAIN parts })

(* what the user may type: digits, separators, blanks and a letter *)
Alphabet == { "1", "3", ",", "-", " ", "x" }

(* longer entries: a malformed part before a range, blanks inside a range, a
   range that leaves 1..max_index on both sides, three numbers in one part, an
   index named twice *)
Examples ==
  { << "x", ",", "3", "-", "1" >>,
    << "1", ",", " ", "3", " ", "-", " ", "2" >>,
    << "1", "0", "-", "2", ",", "1" >>,
    << "0", "-", "9" >>,
    << "1", "-", "2", "-", "3", ",", "3" >>,
    << "3", ",", "1", "-", "3", ",", "1" >> }

Inputs == UNION { [1..n -> Alphabet] : n \in 0..MaxInput } \cup Examples

(* the selection typed and the list returned; parsed is FALSE until the function ran *)
Selection(input_str, max_index, parsed, result) ==
  [input_str |-> input_str, max_index |-> max_index, parsed |-> parsed, result |-> result]

----------------------------------------------------------------------------
(* Letter case of strings held as character sequences *)

UpperCase == << "A", "B", "C", "D", "E", "F", "G", "H", "I", "J", "K", "L", "M", "N", "O", "P", "Q", "R", "S", "T", "U", "V", "W", "X", "Y", "Z" >>

LowerCase == << "a", "b", "c", "d", "e", "f", "g", "h", "i", "j", "k", "l", "m", "n", "o", "p", "q", "r", "s", "t", "u", "v", "w", "x", "y", "z" >>

(* str.lower() and str.upper(), letter by letter; other characters stay *)
lower(s) ==
  [k \in DOMAIN s |->
     IF s[k] \in Range(UpperCase)
     THEN LowerCase[CHOOSE m \in DOMAIN UpperCase : UpperCase[m] = s[k]] ELSE s[k]]

upper(s) ==
  [k \in DOMAIN s |->
     IF s[k] \in Range(LowerCase)
     THEN UpperCase[CHOOSE m \in DOMAIN LowerCase : LowerCase[m] = s[k]] ELSE s[k]]

----------------------------------------------------------------------------
(* nasa_api_curl.login_earthaccess *)

max_attempts == 3

invalid_credentials == << "i", "n", "v", "a", "l", "i", "d", "_", "c", "r", "e", "d", "e", "n", "t", "i", "a", "l", "s" >>

authentication == << "a", "u", "t", "h", "e", "n", "t", "i", "c", "a", "t", "i", "o", "n" >>

(* what str(e) may read for an exception of earthaccess.login() *)
ErrorMessages ==
  { << "i", "n", "v", "a", "l", "i", "d", "_", "c", "r", "e", "d", "e", "n", "t", "i", "a", "l", "s" >>,
    << "A", "u", "t", "h", "e", "n", "t", "i", "c", "a", "t", "i", "o", "n", " ", "r", "e", "q", "u", "i", "r", "e", "d" >>,
    << "C", "o", "n", "n", "e", "c", "t", "i", "o", "n", " ", "t", "i", "m", "e", "d", " ", "o", "u", "t" >> }

(* what one call of earthaccess.login() does: it returns an Auth object, or raises *)
Authenticated == [kind |-> "auth", authenticated |-> TRUE, error_msg |-> << >>]
NotAuthenticated == [kind |-> "auth", authenticated |-> FALSE, error_msg |-> << >>]
Raises(error_msg) == [kind |-> "exception", authenticated |-> FALSE, error_msg |-> error_msg]

LoginOutcomes == { Authenticated, NotAuthenticated } \cup { Raises(m) : m \in ErrorMessages }

(* what the user may answer to the retry prompt, before .lower() *)
RetryAnswers == { << "y" >>, << "Y" >>, << "n" >>, << >> }

(* how the .env file stands: python-dotenv missing, no file, file without the
   two variables, file with them *)
DotenvStates == { "unavailable", "not_found", "found_unset", "found_set" }

(* the run of login_earthaccess: calls are the outcomes of the login calls made,
   answers the retry answers given, ret the value returned *)
Login(pc, dotenv, attempt, calls, answers, ret, msg) ==
  [pc |-> pc, dotenv |-> dotenv, attempt |-> attempt, calls |-> calls,
   answers |-> answers, ret |-> ret, msg |-> msg]

(* the function is entered: without the library it returns False at once; else
   the dotenv messages are printed and the loop starts with attempt = 0 *)
login_start(available, dotenv) ==
  IF ~ available
  THEN Login("returned", dotenv, 0, << >>, << >>, FALSE, "not_installed")
  ELSE Login("loop", dotenv, 0, << >>, << >>, None,
             CASE dotenv = "unavailable" -> "install_dotenv"
               [] dotenv = "not_found" -> "env_not_found"
               [] dotenv = "found_unset" -> "env_not_set"
               [] OTHER -> "env_loaded")

(* the except clause asks again only for an error about the credentials *)
is_auth_error(error_msg) ==
  contains(lower(error_msg), invalid_credentials) \/ contains(lower(error_msg), authentication)

(* one pass of the while loop with the given limit, and the return after the
   loop when the pass was the last one *)
login_pass(l, limit, outcome, retry) ==
  LET attempt == l.attempt + 1
      calls == Append(l.calls, outcome)
      asked == Append(l.answers, retry)
      again(answers) ==
        IF attempt < limit
        THEN Login("loop", l.dotenv, attempt, calls, answers, None, "retry")
        ELSE Login("returned", l.dotenv, attempt, calls, answers, FALSE, "max_attempts")
  IN  IF outcome.kind = "auth"
      THEN IF outcome.authenticated
           THEN Login("returned", l.dotenv, attempt, calls, l.answers, TRUE, "authenticated")
           ELSE IF attempt < limit
                THEN IF lower(retry) # << "y" >>
                     THEN Login("returned", l.dotenv, attempt, calls, asked, FALSE, "declined")
                     ELSE again(asked)
                ELSE again(l.answers)
      ELSE IF is_auth_error(outcome.error_msg)
           THEN IF attempt < limit
                THEN IF lower(retry) # << "y" >>
                     THEN Login("returned", l.dotenv, attempt, calls, asked, FALSE, "declined")
                     ELSE again(asked)
                ELSE Login("returned", l.dotenv, attempt, calls, l.answers, FALSE, "max_attempts")
           ELSE Login("returned", l.dotenv, attempt, calls, l.answers, FALSE, "unexpected")

(* a loop that allows one more pass *)
login_attempt_once_more(l, outcome, retry) == login_pass(l, max_attempts + 1, outcome, retry)

login_attempt(l, outcome, retry) == login_pass(l, max_attempts, outcome, retry)

----------------------------------------------------------------------------
(* nasa_api_curl.download_granules: the loop over the granules found, before the
   content check of the files downloaded *)

(* files a download may bring: one with data, a one-cell placeholder, one
   without data variables, one that cannot be read *)
DataFile == FileEntry(".nc", None, ScenarioA)
PlaceholderFile ==
  FileEntry(".nc", None,
            Dataset(TestVars, TestCoords, "latlon", Axis(SOUTH - 1, 1), Axis(WEST - 1, 1), {<<1, 1>>}))
EmptyFile == FileEntry(".nc", None, Dataset(<< >>, TestCoords, "latlon", TestLat, TestLon, {}))
UnreadableFile == FileEntry(".nc", "OSError", ScenarioA)

DownloadableFiles == { DataFile, PlaceholderFile, EmptyFile, UnreadableFile }

(* what earthaccess.download does for one granule: it returns a list of paths,
   a single path or nothing, it raises, or the user presses Ctrl+C *)
Downloaded(is_list, files) == [kind |-> "returned", is_list |-> is_list, files |-> files]
DownloadFails == [kind |-> "Exception", is_list |-> FALSE, files |-> << >>]
DownloadInterrupted == [kind |-> "KeyboardInterrupt", is_list |-> FALSE, files |-> << >>]

DownloadOutcomes ==
  { Downloaded(TRUE, << >>), Downloaded(FALSE, << >>),
    Downloaded(TRUE, << DataFile, PlaceholderFile >>),
    DownloadFails, DownloadInterrupted }
    \cup { Downloaded(is_list, << f >>) : is_list \in BOOLEAN, f \in DownloadableFiles }

(* the run of download_granules: granule_ids and found are the numbers of ids
   asked for and of granules the search returned, k the next granule, log the
   outcomes of the downloads so far, ret the list returned *)
Download(pc, available, granule_ids, found, k, log, ret, msg) ==
  [pc |-> pc, available |-> available, granule_ids |-> granule_ids, found |-> found,
   k |-> k, log |-> log, ret |-> ret, msg |-> msg]

(* what search_data does: it raises, or returns so many granules *)
SearchOutcomes(granule_ids) ==
  { [raises |-> TRUE, found |-> 0] } \cup { [raises |-> FALSE, found |-> n] : n \in 0..granule_ids }

(* download_granules up to the loop over the granules *)
download_granules_start(d, search) ==
  IF ~ d.available
  THEN Download("returned", d.available, d.granule_ids, 0, 1, << >>, << >>, "not_installed")
  ELSE IF search.raises
  THEN Download("returned", d.available, d.granule_ids, 0, 1, << >>, << >>, "download_error")
  ELSE IF search.found = 0
  THEN Download("returned", d.available, d.granule_ids, 0, 1, << >>, << >>, "no_granules")
  ELSE Download("downloading", d.available, d.granule_ids, search.found, 1, << >>, None, "")

(* the files list after the download of one granule *)
files_extend(files, outcome) ==
  IF outcome.kind = "returned" /\ outcome.files # << >> THEN files \o outcome.files ELSE files

(* a loop that gives up the remaining granules when one download fails *)
download_granule_until_failure(d, outcome) ==
  LET log == Append(d.log, outcome)
  IN  IF outcome.kind # "returned" \/ d.k + 1 > d.found
      THEN Download("checking", d.available, d.granule_ids, d.found, d.k, log, None, outcome.kind)
      ELSE Download("downloading", d.available, d.granule_ids, d.found, d.k + 1, log, None, "")

(* one turn of the loop over granule_results: a failed download is reported and
   the loop goes on; Ctrl+C leaves the loop; after the loop comes the content
   check *)
download_granule(d, outcome) ==
  LET log == Append(d.log, outcome)
  IN  IF outcome.kind = "KeyboardInterrupt"
      THEN Download("checking", d.available, d.granule_ids, d.found, d.k, log, None, "cancelled")
      ELSE IF d.k + 1 > d.found
      THEN Download("checking", d.available, d.granule_ids, d.found, d.k + 1, log, None, "")
      ELSE Download("downloading", d.available, d.granule_ids, d.found, d.k + 1, log, None, "")

(* return valid_files: the files at the positions kept by the content check *)
download_granules_return(d, s) ==
  Download("returned", d.available, d.granule_ids, d.found, d.k, d.log,
           [k \in DOMAIN s.valid_files |-> s.files[s.valid_files[k]]], "summary")

----------------------------------------------------------------------------
(* nasa_api_curl.filter_collections *)

L3 == << "L", "3" >>
AER == << "A", "E", "R" >>
AOD == << "A", "O", "D" >>
AE == << "A", "E" >>
OC == << "O", "C" >>
CHL == << "C", "H", "L" >>
CARBON == << "C", "A", "R", "B", "O", "N" >>

(* a collection of the CMR feed: its short name, when it has one *)
Collection(has_short_name, short_name) ==
  [has_short_name |-> has_short_name, short_name |-> short_name]

ShortNames ==
  { << "A", "E", "R", "D", "B", "_", "L", "3", "_", "V", "I", "I", "R", "S", "_", "N", "O", "A", "A", "2", "0" >>,
    << "v", "i", "i", "r", "s", "_", "l", "3", "_", "a", "o", "d" >>,
    << "J", "P", "S", "S", "_", "L", "3", "M", "_", "A", "E" >>,
    << "P", "A", "C", "E", "_", "O", "C", "I", "_", "L", "3", "M", "_", "A", "E", "R" >>,
    << "M", "O", "D", "I", "S", "_", "L", "3", "_", "C", "H", "L", "_", "A", "O", "D" >>,
    << "L", "3", "_", "C", "a", "r", "b", "o", "n", "_", "A", "E", "R" >>,
    << "V", "I", "I", "R", "S", "_", "L", "2", "_", "A", "O", "D" >>,
    << "V", "I", "I", "R", "S", "_", "L", "3", "_", "S", "S", "T" >>,
    <<  >> }

Collections ==
  { Collection(TRUE, n) : n \in ShortNames } \cup { Collection(FALSE, << >>) }

CollectionLists == UNION { [1..n -> Collections] : n \in 0..MaxCollections }

(* col.get('short_name', '').upper() *)
short_name_upper(col) == IF col.has_short_name THEN upper(col.short_name) ELSE << >>

is_l3(short_name) == contains(short_name, L3)

(* a test for aerosol products that does not know the term AE *)
is_aerosol_without_ae(short_name) == contains(short_name, AER) \/ contains(short_name, AOD)

is_aerosol(short_name) ==
  contains(short_name, AER) \/ contains(short_name, AOD) \/ contains(short_name, AE)

is_ocean_color(short_name) ==
  contains(short_name, OC) \/ contains(short_name, CHL) \/ contains(short_name, CARBON)

RECURSIVE filter_from(_, _)
(* the loop of filter_collections from position k on: filtered.append(col) *)
filter_from(collections, k) ==
  IF k > Len(collections) THEN << >>
  ELSE LET short_name == short_name_upper(collections[k])
       IN  (IF is_l3(short_name) /\ is_aerosol(short_name) /\ ~ is_ocean_color(short_name)
            THEN << collections[k] >> ELSE << >>) \o filter_from(collections, k + 1)

filter_collections(collections) == filter_from(collections, 1)

(* the call of filter_collections: given is the list handed over, collections
   the same list object after the call, filtered the list returned *)
Filter(pc, given, collections, filtered) ==
  [pc |-> pc, given |-> given, collections |-> collections, filtered |-> filtered]

----------------------------------------------------------------------------
(* nc_var_inspector.inspect_netcdf *)

aod_keywords == << << "a", "o", "d" >>,
                   << "a", "e", "r", "o", "s", "o", "l" >>,
                   << "o", "p", "t", "i", "c", "a", "l" >>,
                   << "d", "e", "p", "t", "h" >>,
                   << "a", "o", "t" >> >>

(* names of data variables, as character sequences *)
InspectedNames ==
  { << "C", "O", "M", "B", "I", "N", "E", "_", "A", "O", "D", "_", "5", "5", "0", "_", "A", "V", "G" >>,
    << "t", "e", "m", "p", "_", "p", "l", "a", "c", "e", "h", "o", "l", "d", "e", "r" >>,
    << "A", "e", "r", "o", "s", "o", "l", "_", "T", "y", "p", "e" >>,
    << "C", "l", "o", "u", "d", "_", "O", "p", "t", "i", "c", "a", "l", "_", "D", "e", "p", "t", "h" >>,
    << "A", "O", "T", "_", "8", "6", "9" >>,
    << "l", "a", "t", "i", "t", "u", "d", "e", "_", "b", "o", "u", "n", "d", "s" >> }

(* the lists of up to MaxVars different data variables *)
InspectedVarLists ==
  { l \in UNION { [1..n -> InspectedNames] : n \in 0..MaxVars } :
      \A i \in DOMAIN l, j \in DOMAIN l : l[i] = l[j] => i = j }

(* where the inspection raises: nowhere, at open_dataset, or while the
   coordinates and variables are printed *)
InspectFailures == { "none", "open_dataset", "listing" }

(* the report printed: count_printed tells whether the line Data Variables was
   printed and count_line the number on it, section what the AOD search
   printed, found_aod the variables listed *)
Report(count_printed, count_line, section, found_aod) ==
  [count_printed |-> count_printed, count_line |-> count_line, section |-> section,
   found_aod |-> found_aod]

Inspection(pc, data_vars, failure, report, ret, handle) ==
  [pc |-> pc, data_vars |-> data_vars, failure |-> failure, report |-> report,
   ret |-> ret, handle |-> handle]

(* a search that compares the names as they are written *)
var_as_written(var) == var

(* var_lower = var.lower() *)
var_lower(var) == lower(var)

(* any(keyword in var_lower for keyword in aod_keywords) *)
is_potential_aod(var) ==
  \E k \in DOMAIN aod_keywords : contains(var_lower(var), aod_keywords[k])

RECURSIVE found_aod_from(_, _)
(* the loop over ds.data_vars from position k on: found_aod.append(var) *)
found_aod_from(data_vars, k) ==
  IF k > Len(data_vars) THEN << >>
  ELSE (IF is_potential_aod(data_vars[k]) THEN << data_vars[k] >> ELSE << >>)
         \o found_aod_from(data_vars, k + 1)

(* inspect_netcdf: the whole function is one try; an exception ends it with
   False and leaves the data set, if it was opened, unclosed *)
inspect_netcdf(i) ==
  IF i.failure = "open_dataset"
  THEN Inspection("returned", i.data_vars, i.failure, Report(FALSE, 0, "none", << >>), FALSE, "none")
  ELSE IF i.failure = "listing"
  THEN Inspection("returned", i.data_vars, i.failure,
                  Report(TRUE, Len(i.data_vars), "none", << >>), FALSE, "open")
  ELSE LET found_aod == found_aod_from(i.data_vars, 1)
       IN  Inspection("returned", i.data_vars, i.failure,
                      Report(TRUE, Len(i.data_vars),
                             IF found_aod # << >> THEN "potential_found" ELSE "no_obvious",
                             found_aod),
                      TRUE, "closed")

----------------------------------------------------------------------------
(* nasa_api_curl.main: from the search for collections to the start of the
   download *)

(* the id of the k-th granule that the search numbered s returned *)
GranuleId(s, k) == << s, k >>

(* what search_granules returns: so many granules, none when the request fails *)
GranulesFound(s, n) == [k \in 1..n |-> GranuleId(s, k)]

(* display_granule_info: one entry per granule, with the granule's id *)
display_granule_info(granules) == [k \in DOMAIN granules |-> [index |-> k, id |-> granules[k]]]

(* what the user may type when asked for granule numbers *)
SelectionEntries ==
  Examples \cup { << >>, << "x" >>, << "0" >>, << "1" >>, << "2", "-", "3" >>, << "9" >> }

(* the run of main: available is EARTHACCESS_AVAILABLE, searches counts the granule searches made, granules holds
   what the last search returned, login_returned what login_earthaccess
   returned (None before), ids the list handed to download_granules *)
Flow(available, pc, searches, granules, granule_list, login_returned, choice, selections, ids, started, msg) ==
  [available |-> available, pc |-> pc, searches |-> searches, granules |-> granules, granule_list |-> granule_list,
   login_returned |-> login_returned, choice |-> choice, selections |-> selections,
   ids |-> ids, started |-> started, msg |-> msg]

(* main up to the collection loop: it returns when no collection is found or
   none is left by the filter *)
flow_start(f, found, collections) ==
  IF ~ found THEN Flow(f.available, "returned", 0, << >>, << >>, None, "", 0, << >>, FALSE, "no_collections")
  ELSE IF filter_collections(collections) = << >>
  THEN Flow(f.available, "returned", 0, << >>, << >>, None, "", 0, << >>, FALSE, "no_relevant_collections")
  ELSE Flow(f.available, "collection_loop", 0, << >>, << >>, None, "", 0, << >>, FALSE, "")

(* one turn of the collection loop and, when granules were found, main up to
   the download question: choice is 'q' or a collection number, raises tells
   whether the search raised, n is the number of granules it returned *)
flow_search(f, quit, raises, n, available) ==
  IF quit
  THEN Flow(f.available, "returned", f.searches, f.granules, << >>, None, "q", 0, << >>, FALSE, "exiting")
  ELSE IF raises
  THEN Flow(f.available, "collection_loop", f.searches + 1, f.granules, << >>, None, "", 0, << >>, FALSE,
            "unexpected_error")
  ELSE LET granules == GranulesFound(f.searches + 1, n)
           granule_list == display_granule_info(granules)
       IN  IF granules = << >>
           THEN Flow(f.available, "collection_loop", f.searches + 1, granules, << >>, None, "", 0, << >>,
                     FALSE, "no_granules")
           ELSE IF available
           THEN Flow(f.available, "ask_download", f.searches + 1, granules, granule_list, None, "", 0, << >>,
                     FALSE, "saved")
           ELSE Flow(f.available, "returned", f.searches + 1, granules, granule_list, None, "", 0, << >>,
                     FALSE, "install_earthaccess")

(* Would you like to download files? *)
flow_ask_download(f, download_choice) ==
  IF lower(download_choice) = << "y" >>
  THEN Flow(f.available, "login", f.searches, f.granules, f.granule_list, None, "", 0, << >>, FALSE, "")
  ELSE Flow(f.available, "returned", f.searches, f.granules, f.granule_list, None, "", 0, << >>, FALSE, "")

(* the start of download_granules under if selected_granules_ids *)
flow_download(f, choice, selections, ids) ==
  IF ids # << >>
  THEN Flow(f.available, "downloading", f.searches, f.granules, f.granule_list, f.login_returned, choice,
            selections, ids, TRUE, "")
  ELSE Flow(f.available, "returned", f.searches, f.granules, f.granule_list, f.login_returned, choice,
            selections, ids, FALSE, "")

(* the value returned by login_earthaccess, as main holds it *)
returned(login_ret) == IF login_ret THEN "True" ELSE "False"

(* a main that does not look at what login_earthaccess returned *)
flow_after_login_unchecked(f, login_ret, choice) ==
  IF choice = "1"
  THEN flow_download([f EXCEPT !.login_returned = returned(login_ret)], choice, 0,
                     [k \in DOMAIN f.granule_list |-> f.granule_list[k].id])
  ELSE IF choice = "2"
  THEN Flow(f.available, "select", f.searches, f.granules, f.granule_list, returned(login_ret), choice, 0, << >>, FALSE, "")
  ELSE Flow(f.available, "returned", f.searches, f.granules, f.granule_list, returned(login_ret), choice, 0, << >>,
            FALSE, "skipping")

(* main after login_earthaccess returned: a failed login ends the run; else the
   download choice is 1 (all granules), 2 (a selection) or 3 (skip) *)
flow_after_login(f, login_ret, choice) ==
  IF ~ login_ret
  THEN Flow(f.available, "returned", f.searches, f.granules, f.granule_list, returned(login_ret), "", 0, << >>, FALSE,
            "login_failed")
  ELSE IF choice = "1"
  THEN flow_download([f EXCEPT !.login_returned = returned(login_ret)], choice, 0,
                     [k \in DOMAIN f.granule_list |-> f.granule_list[k].id])
  ELSE IF choice = "2"
  THEN Flow(f.available, "select", f.searches, f.granules, f.granule_list, returned(login_ret), choice, 0, << >>, FALSE, "")
  ELSE Flow(f.available, "returned", f.searches, f.granules, f.granule_list, returned(login_ret), choice, 0, << >>,
            FALSE, "skipping")

(* one turn of the selection loop: an entry that selects nothing is asked for
   again; else the ids at the selected positions go to the download *)
flow_select(f, indices_input) ==
  LET selected_indices_1based == parse_granule_selection(strip(indices_input), Len(f.granule_list))
  IN  IF selected_indices_1based = << >>
      THEN Flow(f.available, "select", f.searches, f.granules, f.granule_list, f.login_returned, f.choice,
                f.selections + 1, << >>, FALSE, "no_valid_selection")
      ELSE flow_download(f, f.choice, f.selections + 1,
                         [k \in DOMAIN selected_indices_1based |->
                            f.granule_list[selected_indices_1based[k]].id])

----------------------------------------------------------------------------
(* Runs of the scripts on the file *)

(* one run of the validity checker *)
CheckFileForData ==
  /\ \E zero_size_raises \in BOOLEAN : check' = check_file_for_data(ds, zero_size_raises)
  /\ UNCHANGED << ds, export, others >>

(* export option 7 of nc_read_convert_geojson.py *)
GeojsonExport ==
  /\ \E zero_size_raises \in BOOLEAN : export' = geojson_export_to_geojson(ds, zero_size_raises)
  /\ UNCHANGED << ds, check, others >>

(* export option 7 of nc_read_convert.py *)
ConvertExport ==
  /\ \E zero_size_raises \in BOOLEAN : export' = convert_export_to_geojson(ds, zero_size_raises)
  /\ UNCHANGED << ds, check, others >>

(* export option 5 of nc_read.py *)
ReadOption5 ==
  /\ \E entry \in Option5Entries : export' = read_save_data_5(ds, entry)
  /\ UNCHANGED << ds, check, others >>

(* export option 5 of nc_read_convert.py *)
ConvertOption5 ==
  /\ \E entry \in Option5Entries : export' = convert_save_data_5(ds, entry)
  /\ UNCHANGED << ds, check, others >>

(* export option 5 of nc_read_convert_geojson.py *)
GeojsonOption5 ==
  /\ \E entry \in Option5Entries : export' = geojson_save_data_5(ds, entry)
  /\ UNCHANGED << ds, check, others >>

Init ==
  /\ ds \in Datasets
  /\ check = NoCheck
  /\ export = NoExport
  /\ run = NoRun
  /\ scan = NoScan
  /\ fname = NoName
  /\ FinderUnused

Next ==
  \/ CheckFileForData
  \/ GeojsonExport
  \/ ConvertExport
  \/ ReadOption5
  \/ ConvertOption5
  \/ GeojsonOption5

Spec == Init /\ [][Next]_vars

----------------------------------------------------------------------------
(* A session of a reader script on one file *)

(* the test data set, one without a longitude coordinate, one without data
   variables, and one whose grid misses the box *)
SessionDatasets ==
  { ScenarioA,
    Dataset(TestVars, {"lat"}, "latlon", TestLat, TestLon, {<<1, 1>>}),
    Dataset(<< >>, TestCoords, "latlon", TestLat, TestLon, {<<1, 1>>}),
    Dataset(TestVars, TestCoords, "lonlat", Axis(SOUTH - 1, 1), TestLon, {<<1, 1>>}) }

OpenErrors == {None, "OSError", "ValueError"}

MainStart ==
  /\ run.pc = "idle"
  /\ \E script \in Scripts, exists \in BOOLEAN, open_exc \in OpenErrors :
       run' = main_start(script, ds, exists, open_exc)
  /\ UNCHANGED << ds, check, export, scan, fname, finderVars >>

MainLoop ==
  /\ run.pc = "ask_export"
  /\ \E save_choice \in {"y", "n"}, choice \in Choices, entry_ok \in BOOLEAN,
        var_entry \in VarEntries, write_ok \in BOOLEAN,
        zero_size_raises \in BOOLEAN, continue_choice \in {"y", "n"} :
       /\ save_choice = "y" => run.exports < MaxExports
       /\ run' = main_loop(run, ds, save_choice, choice,
                           save_data(run.script, ds, choice, entry_ok, var_entry, write_ok, zero_size_raises),
                           continue_choice)
  /\ UNCHANGED << ds, check, export, scan, fname, finderVars >>

SessionInit ==
  /\ ds \in SessionDatasets
  /\ check = NoCheck
  /\ export = NoExport
  /\ run = NoRun
  /\ scan = NoScan
  /\ fname = NoName
  /\ FinderUnused

SessionNext == MainStart \/ MainLoop

SessionSpec == SessionInit /\ [][SessionNext]_vars

----------------------------------------------------------------------------
(* A batch over the files of a directory or of a download *)

ScanStart ==
  /\ scan.kind = "directory" /\ scan.pc = "idle"
  /\ \E isdir \in BOOLEAN : scan' = scan_start(scan, isdir)
  /\ UNCHANGED << ds, check, export, run, fname, finderVars >>

ScanFile ==
  /\ scan.kind = "directory" /\ scan.pc = "walking" /\ scan.i <= Len(scan.files)
  /\ \E zero_size_raises \in BOOLEAN :
       LET r == check_path(scan.files[scan.i], zero_size_raises)
       IN  /\ scan' = scan_file(scan, r)
           /\ check' = IF is_netcdf(scan.files[scan.i]) THEN r ELSE check
  /\ UNCHANGED << ds, export, run, fname, finderVars >>

ScanSummary ==
  /\ scan.kind = "directory" /\ scan.pc = "walking" /\ scan.i > Len(scan.files)
  /\ scan' = scan_summary(scan)
  /\ UNCHANGED << ds, check, export, run, fname, finderVars >>

DownloadStart ==
  /\ scan.kind = "download" /\ scan.pc = "idle"
  /\ \E available \in BOOLEAN, found \in BOOLEAN : scan' = download_start(scan, available, found)
  /\ UNCHANGED << ds, check, export, run, fname, finderVars >>

ContentCheckFile ==
  /\ scan.kind = "download" /\ scan.pc = "walking" /\ scan.i <= Len(scan.files)
  /\ scan' = content_check_file(scan, check_file_contents(scan.files[scan.i]))
  /\ UNCHANGED << ds, check, export, run, fname, finderVars >>

DownloadSummary ==
  /\ scan.kind = "download" /\ scan.pc = "walking" /\ scan.i > Len(scan.files)
  /\ scan' = download_summary(scan)
  /\ UNCHANGED << ds, check, export, run, fname, finderVars >>

BatchInit ==
  /\ ds = ScenarioA
  /\ check = NoCheck
  /\ export = NoExport
  /\ run = NoRun
  /\ fname = NoName
  /\ FinderUnused
  /\ \E kind \in {"directory", "download"}, files \in FileLists :
       scan = Scan(kind, "idle", files, 1, << >>, << >>, << >>, NoSummary)

BatchNext ==
  \/ ScanStart
  \/ ScanFile
  \/ ScanSummary
  \/ DownloadStart
  \/ ContentCheckFile
  \/ DownloadSummary

BatchSpec == BatchInit /\ [][BatchNext]_vars

----------------------------------------------------------------------------
(* The naming of the GeoJSON file of an export *)

GenerateOutputFilename ==
  /\ ~ fname.named
  /\ fname' = Name(fname.nc_filepath, TRUE, generate_output_filename(fname.nc_filepath))
  /\ UNCHANGED << ds, check, export, run, scan, finderVars >>

NameInit ==
  /\ ds = ScenarioA
  /\ check = NoCheck
  /\ export = NoExport
  /\ run = NoRun
  /\ scan = NoScan
  /\ \E nc_filepath \in FileNames : fname = Name(nc_filepath, FALSE, << >>)
  /\ FinderUnused

NameNext == GenerateOutputFilename

NameSpec == NameInit /\ [][NameNext]_vars

----------------------------------------------------------------------------
(* The parsing of a granule selection *)

ParseGranuleSelection ==
  /\ ~ sel.parsed
  /\ sel' = Selection(sel.input_str, sel.max_index, TRUE,
                      parse_granule_selection(sel.input_str, sel.max_index))
  /\ UNCHANGED << ds, check, export, run, scan, fname, login, colls, inspect, flow, dl >>

(* the state of the scripts that are not run *)
ReadersIdle ==
  /\ ds = ScenarioA
  /\ check = NoCheck
  /\ export = NoExport
  /\ run = NoRun
  /\ scan = NoScan
  /\ fname = NoName

SelectInit ==
  /\ ReadersIdle
  /\ \E input_str \in Inputs, max_index \in 0..MaxIndex :
       sel = Selection(input_str, max_index, FALSE, << >>)
  /\ login = Unused /\ colls = Unused /\ inspect = Unused /\ flow = Unused /\ dl = Unused

SelectNext == ParseGranuleSelection

SelectSpec == SelectInit /\ [][SelectNext]_vars

----------------------------------------------------------------------------
(* The login to NASA Earthdata *)

LoginStart ==
  /\ login.pc = "called"
  /\ login' = login_start(login.available, login.dotenv)
  /\ UNCHANGED << ds, check, export, run, scan, fname, sel, colls, inspect, flow, dl >>

LoginAttempt ==
  /\ login.pc = "loop"
  /\ \E outcome \in LoginOutcomes, retry \in RetryAnswers :
       login' = login_attempt(login, outcome, retry)
  /\ UNCHANGED << ds, check, export, run, scan, fname, sel, colls, inspect, flow, dl >>

LoginInit ==
  /\ ReadersIdle
  /\ \E available \in BOOLEAN, dotenv \in DotenvStates :
       login = [pc |-> "called", available |-> available, dotenv |-> dotenv]
  /\ sel = Unused /\ colls = Unused /\ inspect = Unused /\ flow = Unused /\ dl = Unused

LoginNext == LoginStart \/ LoginAttempt

LoginSpec == LoginInit /\ [][LoginNext]_vars

(* the function runs on: no pass of the loop waits for ever *)
LoginLiveSpec == LoginSpec /\ WF_vars(LoginNext)

----------------------------------------------------------------------------
(* The download of granules and the content check of the files *)

DownloadGranulesStart ==
  /\ dl.pc = "called"
  /\ \E search \in SearchOutcomes(dl.granule_ids) : dl' = download_granules_start(dl, search)
  /\ UNCHANGED << ds, check, export, run, scan, fname, sel, login, colls, inspect, flow >>

DownloadGranule ==
  /\ dl.pc = "downloading"
  /\ \E outcome \in DownloadOutcomes :
       /\ dl' = download_granule(dl, outcome)
       /\ scan' = Scan("download", IF dl'.pc = "checking" THEN "walking" ELSE "idle",
                       files_extend(scan.files, outcome), 1, << >>, << >>, << >>, NoSummary)
  /\ UNCHANGED << ds, check, export, run, fname, sel, login, colls, inspect, flow >>

DownloadContentCheck ==
  /\ dl.pc = "checking" /\ scan.i <= Len(scan.files)
  /\ scan' = content_check_file(scan, check_file_contents(scan.files[scan.i]))
  /\ UNCHANGED << ds, check, export, run, fname, finderVars >>

DownloadReturn ==
  /\ dl.pc = "checking" /\ scan.i > Len(scan.files)
  /\ scan' = download_summary(scan)
  /\ dl' = download_granules_return(dl, scan)
  /\ UNCHANGED << ds, check, export, run, fname, sel, login, colls, inspect, flow >>

DownloadInit ==
  /\ ds = ScenarioA
  /\ check = NoCheck
  /\ export = NoExport
  /\ run = NoRun
  /\ fname = NoName
  /\ scan = Scan("download", "idle", << >>, 1, << >>, << >>, << >>, NoSummary)
  /\ \E available \in BOOLEAN, granule_ids \in 1..MaxGranules :
       dl = Download("called", available, granule_ids, 0, 1, << >>, None, "")
  /\ sel = Unused /\ login = Unused /\ colls = Unused /\ inspect = Unused /\ flow = Unused

DownloadNext ==
  \/ DownloadGranulesStart
  \/ DownloadGranule
  \/ DownloadContentCheck
  \/ DownloadReturn

DownloadSpec == DownloadInit /\ [][DownloadNext]_vars

----------------------------------------------------------------------------
(* The filter of the collections found *)

FilterCollections ==
  /\ colls.pc = "called"
  /\ colls' = Filter("returned", colls.given, colls.collections,
                     filter_collections(colls.collections))
  /\ UNCHANGED << ds, check, export, run, scan, fname, sel, login, inspect, flow, dl >>

FilterInit ==
  /\ ReadersIdle
  /\ \E collections \in CollectionLists :
       colls = Filter("called", collections, collections, << >>)
  /\ sel = Unused /\ login = Unused /\ inspect = Unused /\ flow = Unused /\ dl = Unused

FilterNext == FilterCollections

FilterSpec == FilterInit /\ [][FilterNext]_vars

----------------------------------------------------------------------------
(* The inspection of a file *)

InspectNetcdf ==
  /\ inspect.pc = "called"
  /\ inspect' = inspect_netcdf(inspect)
  /\ UNCHANGED << ds, check, export, run, scan, fname, sel, login, colls, flow, dl >>

InspectInit ==
  /\ ReadersIdle
  /\ \E data_vars \in InspectedVarLists, failure \in InspectFailures :
       inspect = Inspection("called", data_vars, failure, Report(FALSE, 0, "none", << >>), None, "none")
  /\ sel = Unused /\ login = Unused /\ colls = Unused /\ flow = Unused /\ dl = Unused

InspectNext == InspectNetcdf

InspectSpec == InspectInit /\ [][InspectNext]_vars

----------------------------------------------------------------------------
(* The main flow of the finder script *)

FlowStart ==
  /\ flow.pc = "start"
  /\ \E found \in BOOLEAN, collections \in CollectionLists :
       flow' = flow_start(flow, found, collections)
  /\ UNCHANGED << ds, check, export, run, scan, fname, sel, login, colls, inspect, dl >>

FlowSearch ==
  /\ flow.pc = "collection_loop"
  /\ \E quit \in BOOLEAN, raises \in BOOLEAN, n \in 0..MaxGranules :
       /\ ~ quit => flow.searches < MaxSearches
       /\ flow' = flow_search(flow, quit, raises, n, flow.available)
  /\ UNCHANGED << ds, check, export, run, scan, fname, sel, login, colls, inspect, dl >>

FlowAskDownload ==
  /\ flow.pc = "ask_download"
  /\ \E download_choice \in RetryAnswers : flow' = flow_ask_download(flow, download_choice)
  /\ \E dotenv \in DotenvStates :
       login' = IF flow'.pc = "login"
                THEN [pc |-> "called", available |-> TRUE, dotenv |-> dotenv] ELSE login
  /\ UNCHANGED << ds, check, export, run, scan, fname, sel, colls, inspect, dl >>

FlowAfterLogin ==
  /\ flow.pc = "login" /\ login.pc = "returned"
  /\ \E choice \in {"1", "2", "3"} : flow' = flow_after_login(flow, login.ret, choice)
  /\ dl' = IF flow'.started
           THEN Download("called", TRUE, Len(flow'.ids), 0, 1, << >>, None, "") ELSE dl
  /\ UNCHANGED << ds, check, export, run, scan, fname, sel, login, colls, inspect >>

FlowSelect ==
  /\ flow.pc = "select"
  /\ \E indices_input \in SelectionEntries :
       /\ parse_granule_selection(strip(indices_input), Len(flow.granule_list)) = << >> =>
            flow.selections + 1 < MaxSelections
       /\ flow' = flow_select(flow, indices_input)
  /\ dl' = IF flow'.started
           THEN Download("called", TRUE, Len(flow'.ids), 0, 1, << >>, None, "") ELSE dl
  /\ UNCHANGED << ds, check, export, run, scan, fname, sel, login, colls, inspect >>

FlowInit ==
  /\ ReadersIdle
  /\ \E available \in BOOLEAN :
       flow = Flow(available, "start", 0, << >>, << >>, None, "", 0, << >>, FALSE, "")
  /\ sel = Unused /\ login = Unused /\ colls = Unused /\ inspect = Unused /\ dl = Unused

FlowNext ==
  \/ FlowStart
  \/ FlowSearch
  \/ FlowAskDownload
  \/ LoginStart
  \/ LoginAttempt
  \/ FlowAfterLogin
  \/ FlowSelect

FlowSpec == FlowInit /\ [][FlowNext]_vars

----------------------------------------------------------------------------
(* What the claims speak of, stated on the data set itself *)

(* cell c of d lies inside the bounding box, edges included *)
InBox(d, c) ==
  /\ SOUTH <= d.lat[c[1]] /\ d.lat[c[1]] <= NORTH
  /\ WEST <= d.lon[c[2]] /\ d.lon[c[2]] <= EAST

CellsInBox(d) == { c \in DOMAIN d.values : InBox(d, c) }

ValidCells(d) == { c \in DOMAIN d.values : ~ d.values[c].nan }

ValidInBox(d) == CellsInBox(d) \cap ValidCells(d)

PointOf(d, c) == Feature(d.lat[c[1]], d.lon[c[2]], d.values[c].v)

HasCandidate(d, candidates) == \E k \in DOMAIN candidates : candidates[k] \in Range(d.data_vars)

HasCoordinates(d) == d.coords \cap LatAliases # {} /\ d.coords \cap LonAliases # {}

(* r is the first name of order that is present, or None when none is *)
IsFirst(r, order, present) ==
  IF \A k \in DOMAIN order : order[k] \notin present
  THEN r = None
  ELSE \E k \in DOMAIN order :
         /\ order[k] = r
         /\ r \in present
         /\ \A j \in 1..(k - 1) : order[j] \notin present

AliasOrderLat == << "lat", "latitude", "Latitude", "LAT" >>
AliasOrderLon == << "lon", "longitude", "Longitude", "LON" >>

CheckRan == check.ran /\ HasCandidate(ds, check_AOD_VARIABLE_CANDIDATES) /\ HasCoordinates(ds)

GeojsonRan ==
  /\ export.op = "geojson.export_to_geojson"
  /\ HasCandidate(ds, geojson_AOD_VARIABLE_CANDIDATES)
  /\ HasCoordinates(ds)

ConvertRan ==
  /\ export.op = "convert.export_to_geojson"
  /\ AEROSOL_VAR_NAME \in Range(ds.data_vars)
  /\ {"lat", "lon"} \subseteq ds.coords

FeatureInBox(f) ==
  /\ SOUTH <= f.properties.lat /\ f.properties.lat <= NORTH
  /\ WEST <= f.properties.lon /\ f.properties.lon <= EAST
  /\ SOUTH <= f.geometry.coordinates[2] /\ f.geometry.coordinates[2] <= NORTH
  /\ WEST <= f.geometry.coordinates[1] /\ f.geometry.coordinates[1] <= EAST

----------------------------------------------------------------------------
(* C1: every point feature a GeoJSON export emits lies inside the bounding box,
   edges included, in both reader scripts.  Violated by nc_read_convert.py on a
   variable stored as (lon, lat). *)
C1_FeaturesInsideBBox ==
  export.op \in {"geojson.export_to_geojson", "convert.export_to_geojson"}
    => \A k \in DOMAIN export.features : FeatureInBox(export.features[k])

(* C2: with at least one non-NaN cell inside the box the checker returns True and
   reports exactly the number of cells that are inside the box and not NaN; a
   further run on the same data set gives the same result and count. *)
C2_CountInv ==
  (CheckRan /\ ValidInBox(ds) # {})
    => check.ret /\ check.count = Cardinality(ValidInBox(ds))

C2_ExactCountIdempotent ==
  /\ []C2_CountInv
  /\ [][(check.ran /\ check'.ran) => (check'.ret = check.ret /\ check'.count = check.count)]_vars

C2_Witness ==
  /\ CheckRan /\ check.ret /\ check.count = 1
  /\ \E c \in ValidCells(ds) : ~ InBox(ds, c)
  /\ \E c \in CellsInBox(ds) : ds.values[c].nan

(* C3: when no cell of the grid lies inside the box, so that the filtered variable
   has zero elements, the checker returns False with count 0 as a normal value:
   no exception leaves check_file_for_data. *)
C3_EmptyIsInvalid ==
  (CheckRan /\ CellsInBox(ds) = {})
    => check.exc = None /\ ~ check.ret /\ check.count = 0

C3_Witness ==
  /\ CheckRan /\ CellsInBox(ds) = {} /\ ValidCells(ds) # {}
  /\ check.msg = "Warning: BBox filter resulted in zero valid data points"

(* C4: when the box meets the grid and every value inside the box is NaN, the
   checker reports invalid with count 0 and a GeoJSON export emits no feature. *)
C4_AllNaNInBox ==
  (CellsInBox(ds) # {} /\ ValidInBox(ds) = {})
    => /\ CheckRan => (~ check.ret /\ check.count = 0)
       /\ (GeojsonRan \/ ConvertRan) => (export.features = << >> /\ ~ export.written)

C4_Witness ==
  /\ CellsInBox(ds) # {} /\ ValidInBox(ds) = {} /\ ValidCells(ds) # {}
  /\ CheckRan /\ ~ check.ret
  /\ GeojsonRan /\ export.msg = "Warning: Filtered dataset contains only NaN values"

(* C5: on a grid that lies inside the box (edges included) with exactly one
   non-NaN cell the checker reports valid with count 1 and the export of
   nc_read_convert_geojson.py yields exactly one feature, with that cell's
   latitude, longitude and value (Scenario A: 47.5, -122.3, 0.15); a data set with
   a valid point inside the box is accepted. *)
C5_SinglePoint ==
  /\ (CellsInBox(ds) = DOMAIN ds.values /\ Cardinality(ValidCells(ds)) = 1)
       => /\ CheckRan => (check.ret /\ check.count = 1)
          /\ GeojsonRan => /\ export.written
                           /\ \E c \in ValidCells(ds) : export.features = << PointOf(ds, c) >>
  /\ ds = ScenarioA
       => /\ check.ran => (check.ret /\ check.count = 1)
          /\ export.op = "geojson.export_to_geojson"
               => export.features = << Feature(475, -1223, 15) >>
  /\ (CheckRan /\ ValidInBox(ds) # {}) => check.ret

C5_Witness ==
  /\ ds = ScenarioA
  /\ check.ret /\ check.count = 1
  /\ export.op = "geojson.export_to_geojson" /\ Len(export.features) = 1

(* C6: the export of nc_read_convert_geojson.py emits exactly one feature for each
   cell inside the box whose value is not NaN, with that cell's coordinates and
   measurement, and none for a NaN cell. *)
C6_OneFeaturePerValidCell ==
  GeojsonRan
    => /\ Len(export.features) = Cardinality(ValidInBox(ds))
       /\ Range(export.features) = { PointOf(ds, c) : c \in ValidInBox(ds) }

C6_Witness ==
  /\ GeojsonRan /\ export.written /\ Len(export.features) = 2
  /\ ds.dims = "lonlat"
  /\ \E c \in CellsInBox(ds) : ds.values[c].nan

(* C7: latitude and longitude are each resolved to the first alias of the fixed
   list that is a coordinate name of the data set, independently of each other;
   a data set with only LAT and lon resolves to (LAT, lon). *)
C7_FirstAliasPerAxis ==
  /\ CheckRan
       => /\ IsFirst(check.lat_coord, AliasOrderLat, ds.coords)
          /\ IsFirst(check.lon_coord, AliasOrderLon, ds.coords)
  /\ GeojsonRan
       => /\ IsFirst(export.lat_coord, AliasOrderLat, ds.coords)
          /\ IsFirst(export.lon_coord, AliasOrderLon, ds.coords)
  /\ (ds.coords = {"LAT", "lon"} /\ CheckRan)
       => (check.lat_coord = "LAT" /\ check.lon_coord = "lon")
  /\ (ds.coords = {"LAT", "lon"} /\ GeojsonRan)
       => (export.lat_coord = "LAT" /\ export.lon_coord = "lon")

C7_Witness ==
  /\ ds.coords = {"LAT", "lon"}
  /\ CheckRan /\ check.lat_coord = "LAT" /\ check.lon_coord = "lon"
  /\ GeojsonRan /\ export.lat_coord = "LAT" /\ export.lon_coord = "lon"

(* C8: every site that resolves coordinate names tries lat, latitude, Latitude, LAT
   and lon, longitude, Longitude, LON in that order, so a data set with both lat
   and latitude resolves latitude to lat at every site.  Violated by option 5 of
   nc_read.py and of nc_read_convert.py, which try latitude and longitude first. *)
C8_SameOrderEverywhere ==
  /\ CheckRan => IsFirst(check.lat_coord, AliasOrderLat, ds.coords)
                 /\ IsFirst(check.lon_coord, AliasOrderLon, ds.coords)
  /\ (GeojsonRan \/ export.op \in {"read.save_data.5", "convert.save_data.5", "geojson.save_data.5"})
       => /\ IsFirst(export.lat_coord, AliasOrderLat, ds.coords)
          /\ IsFirst(export.lon_coord, AliasOrderLon, ds.coords)

(* C9: the variable resolved is the first name of the candidate list that is a data
   variable of the data set; COMBINE_AOD_550_AVG wins over DT_AOD_550_AVG and
   DB_AOD_550_AVG when all three are present. *)
C9_FirstCandidateWins ==
  /\ check.ran
       => IsFirst(check.aod_variable, check_AOD_VARIABLE_CANDIDATES, Range(ds.data_vars))
  /\ export.op = "geojson.export_to_geojson"
       => IsFirst(export.aod_variable, geojson_AOD_VARIABLE_CANDIDATES, Range(ds.data_vars))
  /\ ({"COMBINE_AOD_550_AVG", "DT_AOD_550_AVG", "DB_AOD_550_AVG"} \subseteq Range(ds.data_vars)
        /\ "Aerosol_Optical_Depth_550" \notin Range(ds.data_vars))
       => /\ check.ran => check.aod_variable = "COMBINE_AOD_550_AVG"
          /\ export.op = "geojson.export_to_geojson" => export.aod_variable = "COMBINE_AOD_550_AVG"

C9_Witness ==
  /\ Range(ds.data_vars) = {"COMBINE_AOD_550_AVG", "DT_AOD_550_AVG", "DB_AOD_550_AVG"}
  /\ check.ran /\ check.aod_variable = "COMBINE_AOD_550_AVG"
  /\ export.op = "geojson.export_to_geojson" /\ export.aod_variable = "COMBINE_AOD_550_AVG"

(* C10: names are matched exactly: when no candidate equals a data variable name
   the result is not-found, also when the data set holds names that differ from a
   candidate only by case or by a suffix. *)
C10_ExactMatchOnly ==
  /\ (check.ran /\ ~ HasCandidate(ds, check_AOD_VARIABLE_CANDIDATES))
       => /\ check.aod_variable = None
          /\ ~ check.ret
          /\ check.msg = "FAIL: Missing required AOD variable"
  /\ (export.op = "geojson.export_to_geojson" /\ ~ HasCandidate(ds, geojson_AOD_VARIABLE_CANDIDATES))
       => /\ export.aod_variable = None
          /\ ~ export.written
          /\ export.features = << >>

C10_Witness ==
  /\ Range(ds.data_vars) = {"temp_placeholder", "aerosol_optical_depth_550", "AOD_550nm_Mean"}
  /\ check.ran /\ check.aod_variable = None
  /\ export.op = "geojson.export_to_geojson" /\ export.aod_variable = None

(* C11: on a data set with none of the candidate variables the processing of the
   file stops at variable resolution: neither the bounding-box filter nor the
   validity count (nor, in the export, the conversion to rows and the write) is
   executed, and the diagnostic lists every candidate of the list. *)
C11_StopsAtVariableResolution ==
  /\ (check.ran /\ ~ HasCandidate(ds, check_AOD_VARIABLE_CANDIDATES))
       => /\ check.log.steps = << "open_dataset", "find_variable" >>
          /\ Range(check.log.steps) \cap {"find_coordinates", "where", "count"} = {}
          /\ check.log.looked_for = Range(check_AOD_VARIABLE_CANDIDATES)
          /\ ~ check.ret /\ check.exc = None
  /\ (export.op = "geojson.export_to_geojson" /\ ~ HasCandidate(ds, geojson_AOD_VARIABLE_CANDIDATES))
       => /\ export.log.steps = << "find_aod_variable" >>
          /\ Range(export.log.steps) \cap {"where", "to_dataframe", "write"} = {}
          /\ export.log.looked_for = Range(geojson_AOD_VARIABLE_CANDIDATES)
          /\ ~ export.written /\ export.exc = None

C11_Witness ==
  /\ ds.data_vars = << "temp_placeholder", "AOD_550nm_Mean" >>
  /\ HasCoordinates(ds) /\ ValidInBox(ds) # {}
  /\ check.ran /\ check.msg = "FAIL: Missing required AOD variable"
  /\ export.op = "geojson.export_to_geojson"
  /\ export.msg = "Error: No AOD variable found in file"

(* the aliases of the axes that did not resolve: each of them was tried *)
TriedInVain(d) ==
  (IF d.coords \cap LatAliases = {} THEN LatAliases ELSE {})
    \cup (IF d.coords \cap LonAliases = {} THEN LonAliases ELSE {})

(* C12: when the latitude or the longitude axis does not resolve, the file is
   reported as failed with the list of the aliases that were tried, no
   bounding-box filter is run and no output is written, and the run ends with a
   normal return, so that the batch goes on.  Violated: both scripts list the
   coordinates the data set has; the aliases tried are not printed. *)
C12_CoordinateFailureReported ==
  /\ (check.ran /\ HasCandidate(ds, check_AOD_VARIABLE_CANDIDATES) /\ ~ HasCoordinates(ds))
       => /\ ~ check.ret /\ check.exc = None
          /\ check.msg = "FAIL: Could not find latitude/longitude coordinates"
          /\ Range(check.log.steps) \cap {"where", "count"} = {}
          /\ TriedInVain(ds) \subseteq check.log.looked_for
  /\ (export.op = "geojson.export_to_geojson"
        /\ HasCandidate(ds, geojson_AOD_VARIABLE_CANDIDATES) /\ ~ HasCoordinates(ds))
       => /\ ~ export.written /\ export.exc = None /\ export.features = << >>
          /\ export.msg = "Error: Could not find latitude/longitude coordinates"
          /\ Range(export.log.steps) \cap {"where", "to_dataframe", "write"} = {}
          /\ TriedInVain(ds) \subseteq export.log.looked_for

(* what holds of C12 in both scripts: the failure as a whole, no filter, no
   output, a normal return, and the list of the coordinates the data set has *)
C12_CoordinateFailureStops ==
  /\ (check.ran /\ HasCandidate(ds, check_AOD_VARIABLE_CANDIDATES) /\ ~ HasCoordinates(ds))
       => /\ ~ check.ret /\ check.exc = None
          /\ check.msg = "FAIL: Could not find latitude/longitude coordinates"
          /\ Range(check.log.steps) \cap {"where", "count"} = {}
          /\ check.log.looked_for = {} /\ check.log.available = ds.coords
  /\ (export.op = "geojson.export_to_geojson"
        /\ HasCandidate(ds, geojson_AOD_VARIABLE_CANDIDATES) /\ ~ HasCoordinates(ds))
       => /\ ~ export.written /\ export.exc = None /\ export.features = << >>
          /\ export.msg = "Error: Could not find latitude/longitude coordinates"
          /\ Range(export.log.steps) \cap {"where", "to_dataframe", "write"} = {}
          /\ export.log.looked_for = {} /\ export.log.available = ds.coords

(* C13: once the routine that opened a data set has returned, the handle is
   closed, also when an export raised.  Violated by main of the three reader
   scripts: ds.close() is the last statement of the try block and the except
   clauses do not close. *)
C13_HandleClosedOnReturn == run.pc = "returned" => run.handle # "open"

(* the positions of the .nc and .nc4 files among the first n files, in order *)
NetcdfBefore(files, n) == SortedSeq({ k \in 1..n : k <= Len(files) /\ is_netcdf(files[k]) })

(* file e cannot be opened, or the filter of its data set is a zero-size array *)
FailsInCheck(e) == e.open_exc # None \/ (HasCandidate(e.d, check_AOD_VARIABLE_CANDIDATES)
                                          /\ HasCoordinates(e.d) /\ CellsInBox(e.d) = {})

(* C14: in a directory scan a file that cannot be opened or whose filter is a
   zero-size array is invalid and does not end the scan: no exception leaves the
   loop, the files handed to the check so far are the .nc and .nc4 files passed,
   each once and in order, and at the end they are all of them. *)
C14_ScanSurvivesFailures ==
  scan.kind = "directory"
    => /\ scan.pc # "aborted"
       /\ scan.pc \in {"walking", "done"}
            => scan.checked = NetcdfBefore(scan.files, scan.i - 1)
       /\ scan.pc = "done" => scan.checked = NetcdfBefore(scan.files, Len(scan.files))
       /\ \A k \in Range(scan.checked) :
            FailsInCheck(scan.files[k]) => k \notin Range(scan.valid_files)

C14_Witness ==
  /\ scan.kind = "directory" /\ scan.pc = "done" /\ Len(scan.files) = 2
  /\ FailsInCheck(scan.files[1])
  /\ scan.checked = << 1, 2 >> /\ scan.valid_files = << 2 >>

(* the files of a finished batch whose check returned true *)
CheckedTrue(s) ==
  { k \in Range(s.checked) :
      IF s.kind = "directory" THEN check_path(s.files[k], TRUE).ret
      ELSE check_file_contents(s.files[k]).ret }

(* C15: the final summary of a batch reports the number of valid files and the
   number of invalid files; the valid count is the number of files whose check
   returned true and the two counts add up to the number of files checked.
   Violated by the directory scan, whose summary prints the valid count only. *)
C15_SummaryTallies ==
  scan.pc = "done"
    => /\ {"valid", "invalid"} \subseteq scan.summary.reported
       /\ scan.summary.valid = Cardinality(CheckedTrue(scan))
       /\ scan.summary.valid + scan.summary.invalid = Len(scan.checked)

(* what holds of C15: the valid count is right in both batches, and the summary
   after a download reports both counts, which add up to the files checked *)
C15_ValidCountExact ==
  scan.pc = "done"
    => /\ "valid" \in scan.summary.reported
       /\ scan.summary.valid = Cardinality(CheckedTrue(scan))
       /\ scan.kind = "download"
            => /\ "invalid" \in scan.summary.reported
               /\ scan.summary.valid + scan.summary.invalid = Len(scan.checked)
               /\ Len(scan.checked) = Len(scan.files)

(* C16: when no cell inside the box holds a value (the box misses the grid, or
   every value inside it is NaN), the export ends with a normal return and no
   feature: the exception of a zero-size filter does not leave the export and
   nothing is written. *)
C16_NoPointIsNotAnError ==
  (ValidInBox(ds) = {} /\ (GeojsonRan \/ ConvertRan))
    => /\ export.exc = None
       /\ export.features = << >>
       /\ ~ export.written
       /\ "write" \notin Range(export.log.steps)

C16_Witness ==
  /\ ValidInBox(ds) = {} /\ ValidCells(ds) # {} /\ CellsInBox(ds) = {}
  /\ ConvertRan /\ export.exc = None
  /\ export.msg = "Error during spatial filtering"

(* the form of a feature: a Point whose properties repeat the geometry *)
FeatureShape(f) ==
  /\ f.type = "Feature" /\ f.geometry.type = "Point"
  /\ DOMAIN f.properties = {"aod", "lat", "lon"}
  /\ f.geometry.coordinates = << f.properties.lon, f.properties.lat >>

(* C17: every feature of an export is a Point whose coordinates are the longitude
   and the latitude of a cell of the grid, in that order, and whose properties
   hold that cell's measurement as aod and the same latitude and longitude as
   lat and lon.  Violated by nc_read_convert.py on a variable stored as
   (lon, lat), as in C1: the first coordinate is then the latitude. *)
C17_PointLonLat ==
  export.op \in {"geojson.export_to_geojson", "convert.export_to_geojson"}
    => \A k \in DOMAIN export.features :
         /\ FeatureShape(export.features[k])
         /\ \E c \in ValidCells(ds) :
              /\ export.features[k].geometry.coordinates = << ds.lon[c[2]], ds.lat[c[1]] >>
              /\ export.features[k].properties.aod = ds.values[c].v

(* what holds of C17 in both scripts, and all of it in nc_read_convert_geojson.py *)
C17_FeatureShapeHolds ==
  /\ export.op \in {"geojson.export_to_geojson", "convert.export_to_geojson"}
       => \A k \in DOMAIN export.features : FeatureShape(export.features[k])
  /\ export.op = "geojson.export_to_geojson"
       => \A k \in DOMAIN export.features :
            \E c \in ValidCells(ds) : export.features[k] = PointOf(ds, c)

MetadataFields ==
  {"source_product", "time_start", "time_end", "variable_description", "variable_name"}

(* C18: every feature collection a GeoJSON export writes, in either reader script,
   has a metadata record with the five fields source_product, time_start,
   time_end, variable_description and variable_name, the last one naming the
   variable the features were taken from.  Violated by nc_read_convert.py, whose
   metadata has no variable_name. *)
C18_MetadataFiveFields ==
  (export.op \in {"geojson.export_to_geojson", "convert.export_to_geojson"} /\ export.written)
    => /\ DOMAIN export.metadata = MetadataFields
       /\ export.metadata.variable_name = export.aod_variable
       /\ export.aod_variable \in Range(ds.data_vars)

(* what holds of C18: the five fields in nc_read_convert_geojson.py, the other
   four in nc_read_convert.py *)
C18_MetadataPerScript ==
  /\ (export.op = "geojson.export_to_geojson" /\ export.written)
       => /\ DOMAIN export.metadata = MetadataFields
          /\ export.metadata.variable_name = export.aod_variable
          /\ export.aod_variable = find_aod_variable(ds)
  /\ (export.op = "convert.export_to_geojson" /\ export.written)
       => DOMAIN export.metadata = MetadataFields \ {"variable_name"}

(* the points of a sequence of features that pass the comparisons of the mask *)
points_in_bbox(features) == SelectSeq(features, FeatureInBox)

(* C19: filtering is idempotent.  The filtered view of the data set is a fixed
   point of the filter, the points extracted from it by nc_read_convert_geojson.py
   all pass the same box again, unchanged, and the count of the checker is the
   count of the view filtered twice. *)
C19_FilterIdempotent ==
  /\ GeojsonRan
       => LET view == where_drop(ds, export.lat_coord, export.lon_coord)
              again == where_drop(view, export.lat_coord, export.lon_coord)
          IN  /\ again = view
              /\ dropna(to_dataframe(again)) = dropna(to_dataframe(view))
              /\ points_in_bbox(export.features) = export.features
  /\ CheckRan
       => LET view == where_drop(ds, check.lat_coord, check.lon_coord)
          IN  /\ where_drop(view, check.lat_coord, check.lon_coord) = view
              /\ check.count = count(where_drop(view, check.lat_coord, check.lon_coord))

C19_Witness ==
  /\ GeojsonRan /\ export.written /\ Len(export.features) = 1 /\ ds.dims = "lonlat"
  /\ \E c \in ValidCells(ds) : ~ InBox(ds, c)
  /\ CheckRan /\ check.ret
  /\ points_in_bbox(export.features) = export.features

(* the parts of a name of the form PACE_OCI.<date>.L3m...V3_1.<resolution>.NRT.nc *)
IsPaceName(nc_filepath, dir, date, product, resolution) ==
  nc_filepath = FileName(dir, PACE_OCI_DOT, date, DOT_L3M, product, V3_1_DOT, resolution, DOT_NRT)

(* C20: generate_output_filename of nc_read_convert.py maps
   PACE_OCI.<date>.L3m...V3_1.<resolution>.NRT.nc to
   seattle_aod_<date>_<resolution>.geojson with the date and the resolution copied
   unchanged, so that PACE_OCI.20250702.L3m.DAY.AER_UAA.V3_1.0p1deg.NRT.nc gives
   seattle_aod_20250702_0p1deg.geojson.  Violated: the function replaces every p
   of the resolution by point. *)
C20_DateAndResolutionCopied ==
  fname.named
    => \A dir \in Directories, date \in Dates, product \in Products, resolution \in Resolutions :
         IsPaceName(fname.nc_filepath, dir, date, product, resolution)
           => fname.output = seattle_aod_ \o date \o << "_" >> \o resolution \o dot_geojson

(* what the function does on these names: the date is copied, and the resolution
   with point for every p *)
C20_ResolutionWithPoint ==
  fname.named
    => \A dir \in Directories, date \in Dates, product \in Products, resolution \in Resolutions :
         IsPaceName(fname.nc_filepath, dir, date, product, resolution)
           => fname.output = seattle_aod_ \o date \o << "_" >>
                               \o replace(resolution, << "p" >>, point) \o dot_geojson


----------------------------------------------------------------------------
(* C21 *)

(* the comma-separated parts of s: the longest stretches without a comma *)
PartsOf(s) ==
  { SubSeq(s, i, j) : i \in 1..(Len(s) + 1), j \in 0..Len(s) } \cap
  { SubSeq(s, i, j) : << i, j >> \in
      { p \in (1..(Len(s) + 1)) \X (0..Len(s)) :
          /\ p[1] <= p[2] + 1
          /\ \A k \in p[1]..p[2] : s[k] # ","
          /\ (p[1] = 1 \/ s[p[1] - 1] = ",")
          /\ (p[2] = Len(s) \/ s[p[2] + 1] = ",") } }

RECURSIVE Power10(_)
Power10(k) == IF k = 0 THEN 1 ELSE 10 * Power10(k - 1)

RECURSIVE PlaceSum(_, _)
(* the sum of the digits of t from position k on, each at its place value *)
PlaceSum(t, k) ==
  IF k > Len(t) THEN 0 ELSE digit(t[k]) * Power10(Len(t) - k) + PlaceSum(t, k + 1)

(* the number that t writes in decimal, blanks around it aside: a set of one
   number, or the empty set when t writes none *)
NumbersOf(t) ==
  { PlaceSum(SubSeq(t, p[1], p[2]), 1) : p \in
      { q \in (1..Len(t)) \X (1..Len(t)) :
          /\ q[1] <= q[2]
          /\ \A k \in 1..Len(t) : (k < q[1] \/ k > q[2]) => t[k] = " "
          /\ \A k \in q[1]..q[2] : t[k] \in Range(Digits) } }

(* the indices a well-formed part names: n, or everything between a and b *)
Names(part, i) ==
  \/ i \in NumbersOf(part)
  \/ \E k \in 1..Len(part) :
       /\ part[k] = "-"
       /\ \A m \in 1..Len(part) : part[m] = "-" => m = k
       /\ \E a \in NumbersOf(SubSeq(part, 1, k - 1)),
             b \in NumbersOf(SubSeq(part, k + 1, Len(part))) :
            /\ (IF a < b THEN a ELSE b) <= i
            /\ i <= (IF a < b THEN b ELSE a)

(* C21: for every input string and every max_index, parse_granule_selection
   returns a strictly ascending list of indices in 1..max_index, which holds
   exactly the in-range indices that the well-formed comma-separated parts name
   (a number n, or a range a-b taken as min(a,b)..max(a,b)); a malformed part
   adds nothing *)
C21_SelectionIsNamedSet ==
  sel.parsed =>
    /\ \A k \in 1..(Len(sel.result) - 1) : sel.result[k] < sel.result[k + 1]
    /\ \A k \in DOMAIN sel.result : sel.result[k] \in 1..sel.max_index
    /\ Range(sel.result) =
         { i \in 1..sel.max_index : \E part \in PartsOf(sel.input_str) : Names(part, i) }

(* a malformed part followed by a range written downwards *)
C21_Witness ==
  /\ sel.parsed
  /\ sel.input_str = << "x", ",", "3", "-", "1" >>
  /\ sel.max_index = 3
  /\ sel.result = << 1, 2, 3 >>


----------------------------------------------------------------------------
(* C22 *)

(* the login calls made so far in the run *)
LoginCalls == IF login.pc = "called" THEN << >> ELSE login.calls

LastCallAuthenticated ==
  /\ LoginCalls # << >>
  /\ LoginCalls[Len(LoginCalls)].kind = "auth"
  /\ LoginCalls[Len(LoginCalls)].authenticated

(* C22: in every run of login_earthaccess the login call is made at most 3
   times, whatever the failures, exceptions and retry answers; the function
   then returns, and it returns True exactly when its last login call reported
   an authenticated session *)
C22_AtMostThreeLogins ==
  /\ [](Len(LoginCalls) <= 3)
  /\ [](login.pc = "returned" => (login.ret = TRUE <=> LastCallAuthenticated))
  /\ <>(login.pc = "returned")

(* an exception about the credentials, then a failed login, then success at
   the third call *)
C22_Witness ==
  /\ login.pc = "returned"
  /\ Len(login.calls) = 3
  /\ login.calls[1].kind = "exception"
  /\ login.calls[2] = NotAuthenticated
  /\ login.ret = TRUE


----------------------------------------------------------------------------
(* C23 *)

RECURSIVE FilesOf(_)
(* the files that the downloads of a log brought, in download order *)
FilesOf(log) ==
  IF log = << >> THEN << >>
  ELSE FilesOf(SubSeq(log, 1, Len(log) - 1)) \o
       (IF log[Len(log)].kind = "returned" THEN log[Len(log)].files ELSE << >>)

ContentTrue(e) == check_file_contents(e).ret

Interrupted == \E k \in DOMAIN dl.log : dl.log[k].kind = "KeyboardInterrupt"

(* C23: download_granules returns exactly the downloaded files for which
   check_file_contents is true, in download order; after a user interrupt every
   file downloaded before it is still content-checked, and after a failed
   download the remaining granules are still attempted *)
C23_ReturnsCheckedDownloads ==
  /\ dl.pc \in {"downloading", "checking", "returned"} => scan.files = FilesOf(dl.log)
  /\ dl.pc \in {"checking", "returned"} /\ dl.found > 0 =>
       Interrupted \/ Len(dl.log) = dl.found
  /\ dl.pc = "returned" =>
       /\ dl.ret = SelectSeq(scan.files, ContentTrue)
       /\ dl.found > 0 => scan.checked = [k \in 1..Len(scan.files) |-> k]

(* a failed download, a download of two files, then Ctrl+C at the third granule *)
C23_Witness ==
  /\ dl.pc = "returned"
  /\ Len(dl.log) = 3
  /\ dl.log[1] = DownloadFails
  /\ dl.log[2] = Downloaded(TRUE, << DataFile, PlaceholderFile >>)
  /\ dl.log[3] = DownloadInterrupted
  /\ dl.ret = << DataFile >>


----------------------------------------------------------------------------
(* C24 *)

(* t occurs in s, letter by letter from some position on *)
Occurs(t, s) ==
  \E i \in 1..(Len(s) + 1) :
    /\ i + Len(t) - 1 <= Len(s)
    /\ \A j \in 1..Len(t) : s[i + j - 1] = t[j]

(* the collections the filter is to keep *)
Relevant(col) ==
  /\ col.has_short_name
  /\ Occurs(L3, upper(col.short_name))
  /\ \E term \in {AER, AOD, AE} : Occurs(term, upper(col.short_name))
  /\ \A term \in {OC, CHL, CARBON} : ~ Occurs(term, upper(col.short_name))

(* C24: filter_collections returns, in their original order, exactly the
   collections whose upper-cased short name contains L3, contains at least one
   of AER, AOD, AE, and contains none of OC, CHL, CARBON; a collection without a
   short name is never kept, and the input list is not modified *)
C24_FilterKeepsRelevant ==
  colls.pc = "returned" =>
    /\ colls.filtered = SelectSeq(colls.given, Relevant)
    /\ \A k \in DOMAIN colls.filtered : colls.filtered[k].has_short_name
    /\ colls.collections = colls.given

(* a lower-case aerosol product is kept, a PACE OCI product is dropped for its OC *)
C24_Witness ==
  /\ colls.pc = "returned"
  /\ colls.given = << Collection(TRUE, << "P", "A", "C", "E", "_", "O", "C", "I", "_", "L", "3", "M", "_", "A", "E", "R" >>), Collection(TRUE, << "v", "i", "i", "r", "s", "_", "l", "3", "_", "a", "o", "d" >>) >>
  /\ colls.filtered = << Collection(TRUE, << "v", "i", "i", "r", "s", "_", "l", "3", "_", "a", "o", "d" >>) >>


----------------------------------------------------------------------------
(* C25 *)

(* the lower-cased name holds one of the five keywords *)
NamesAOD(var) == \E k \in DOMAIN aod_keywords : Occurs(aod_keywords[k], lower(var))

(* C25: inspect_netcdf reports a data-variable count equal to the number of
   data variables of the opened data set, lists as potential AOD variables
   exactly those whose lower-cased name contains one of aod, aerosol, optical,
   depth, aot, and reports that no obvious AOD variable was found when there
   is none *)
C25_InspectorReport ==
  inspect.pc = "returned" =>
    /\ inspect.report.count_printed => inspect.report.count_line = Len(inspect.data_vars)
    /\ inspect.failure # "open_dataset" => inspect.report.count_printed
    /\ inspect.ret = TRUE =>
         /\ inspect.report.found_aod = SelectSeq(inspect.data_vars, NamesAOD)
         /\ inspect.report.section =
              IF \E k \in DOMAIN inspect.data_vars : NamesAOD(inspect.data_vars[k])
              THEN "potential_found" ELSE "no_obvious"

(* the data set of the test: the AOD variable is named in capitals *)
C25_Witness ==
  /\ inspect.pc = "returned"
  /\ inspect.data_vars = << << "t", "e", "m", "p", "_", "p", "l", "a", "c", "e", "h", "o", "l", "d", "e", "r" >>, << "C", "O", "M", "B", "I", "N", "E", "_", "A", "O", "D", "_", "5", "5", "0", "_", "A", "V", "G" >> >>
  /\ inspect.report = Report(TRUE, 2, "potential_found", << << "C", "O", "M", "B", "I", "N", "E", "_", "A", "O", "D", "_", "5", "5", "0", "_", "A", "V", "G" >> >>)


----------------------------------------------------------------------------
(* C26 *)

(* download_granules has been started in the run *)
DownloadStarted == flow.started \/ dl # Unused

(* C26: in the main flow of the finder script download_granules is started
   only after login_earthaccess has returned True in the same run, and only
   with a non-empty list of granule ids that all belong to the granules found
   by the last search; if the login fails or the user chooses to skip, no
   download is started *)
C26_DownloadOnlyAfterLogin ==
  /\ DownloadStarted =>
       /\ flow.started /\ dl.pc = "called"
       /\ login.pc = "returned" /\ login.ret = TRUE /\ flow.login_returned = "True"
       /\ flow.ids # << >>
       /\ dl.granule_ids = Len(flow.ids)
       /\ \A k \in DOMAIN flow.ids : flow.ids[k] \in Range(flow.granules)
       /\ \A k \in DOMAIN flow.ids : flow.ids[k][1] = flow.searches
  /\ flow.login_returned = "False" \/ flow.choice = "3" => ~ DownloadStarted

(* after a search without granules and a second login attempt, the user
   selects the granules 1 to 3 of the second search, written downwards *)
C26_Witness ==
  /\ flow.started
  /\ flow.searches = 2
  /\ Len(login.calls) = 2
  /\ flow.choice = "2"
  /\ flow.ids = << GranuleId(2, 1), GranuleId(2, 2), GranuleId(2, 3) >>


----------------------------------------------------------------------------
(* C27 *)

(* the checker and the GeoJSON exporter of nc_read_convert_geojson.py both ran
   on the data set, and the checker found it valid *)
CheckedValidAndExported ==
  /\ check.ran /\ check.exc = None /\ check.ret
  /\ export.op = "geojson.export_to_geojson"

(* C27: the validity checker and the GeoJSON exporter of
   nc_read_convert_geojson.py agree on every data set: whenever
   check_file_for_data reports a file valid with count n for a variable v,
   export_to_geojson on the same data set resolves the same variable v and
   writes exactly n features *)
C27_CheckerAndExporterAgree ==
  CheckedValidAndExported =>
    /\ export.aod_variable = check.aod_variable
    /\ export.written
    /\ Len(export.features) = check.count

(* the two agree on the data sets whose first checker candidate is also a
   candidate of the exporter *)
C27_AgreeOnSharedCandidates ==
  CheckedValidAndExported /\ check.aod_variable \in Range(geojson_AOD_VARIABLE_CANDIDATES) =>
    /\ export.aod_variable = check.aod_variable
    /\ export.written
    /\ Len(export.features) = check.count


----------------------------------------------------------------------------
(* C28 *)

(* the last turn of the export loop was option 3 *)
Option3Taken == run.option3 # NoOption3

(* the session went on to the question whether to export again *)
AskedAgain == run.option3.exc = None

(* C28: in every reader script, export option 3 exports a variable only when
   the number entered is in 1..N (N the number of data variables) and then
   exports the variable listed under that number; any other entry (non-numeric,
   0, negative, greater than N) aborts only that export without writing a file,
   the data set stays usable, and the export loop goes on to ask whether to
   export again *)
C28_OptionThreeGuarded ==
  Option3Taken =>
    IF run.option3.entry.numeric /\ run.option3.entry.n \in 1..Len(ds.data_vars)
    THEN run.option3.var_name = ds.data_vars[run.option3.entry.n]
    ELSE /\ run.option3.var_name = None
         /\ ~ run.option3.written
         /\ AskedAgain

(* what the scripts do: a number from 1 - N to 0 counts from the end of the
   list and is exported too; any other bad entry aborts the export in
   nc_read_convert.py and nc_read_convert_geojson.py, and ends the session of
   nc_read.py with the data set left open *)
C28_OptionThreeAsCoded ==
  Option3Taken =>
    LET entry == run.option3.entry
        N == Len(ds.data_vars)
    IN  IF entry.numeric /\ entry.n \in 1..N
        THEN run.option3.var_name = ds.data_vars[entry.n]
        ELSE IF entry.numeric /\ entry.n \in (1 - N)..0
        THEN run.option3.var_name = ds.data_vars[N + entry.n]
        ELSE /\ run.option3.var_name = None
             /\ ~ run.option3.written
             /\ run.script # "read" => AskedAgain
             /\ run.script = "read" =>
                  /\ run.option3.exc \in {"ValueError", "IndexError"}
                  /\ run.pc = "returned" /\ run.handle = "open"
                  /\ run.msg = "Error opening file"


----------------------------------------------------------------------------
(* C29 *)

(* option 5 ran with numbers at the four prompts and got as far as its file *)
Option5Ran ==
  /\ export.op \in {"read.save_data.5", "convert.save_data.5", "geojson.save_data.5"}
  /\ export.written

Ascending(axis) == \A k \in DOMAIN axis, m \in DOMAIN axis : k <= m => axis[k] <= axis[m]

(* the positions of the rows that option 5 wrote *)
RowPoints == { << export.rows[k].lat, export.rows[k].lon >> : k \in DOMAIN export.rows }

(* the positions of the cells at which the mask of the validator is true *)
MaskPoints ==
  { << ds.lat[c[1]], ds.lon[c[2]] >> :
      c \in { x \in DOMAIN ds.values : bbox_mask(ds, "lat", "lon", x[1], x[2]) } }

(* C29: export option 5 keeps exactly the grid cells with
   lat_min <= lat <= lat_max and lon_min <= lon <= lon_max, the same cells as
   the bounding-box mask of the validator selects for the same bounds, whether
   the latitude and longitude axes are stored in ascending or in descending
   order *)
C29_Option5KeepsBoxCells ==
  Option5Ran =>
    /\ RowPoints = { << ds.lat[c[1]], ds.lon[c[2]] >> : c \in CellsInBox(ds) }
    /\ RowPoints = MaskPoints

(* on axes stored in ascending order option 5 and the mask keep the same cells *)
C29_AscendingAxesAgree ==
  Option5Ran /\ Ascending(ds.lat) /\ Ascending(ds.lon) =>
    /\ RowPoints = { << ds.lat[c[1]], ds.lon[c[2]] >> : c \in CellsInBox(ds) }
    /\ RowPoints = MaskPoints

(* on an axis stored in descending order the slice from the minimum to the
   maximum is empty, unless the box holds the whole axis at one label *)
C29_DescendingAxisKeepsNothing ==
  Option5Ran /\ (~ Ascending(ds.lat) \/ ~ Ascending(ds.lon)) => export.rows = << >>

====
